---- MODULE Spec2Model ----
(***************************************************************************)
(* Model of the module runtime core (packages/jest-runtime/src/index.ts):  *)
(* the require surface, the mock decision (_shouldMock), the module and    *)
(* mock registries, isolateModules / resetModules, the executor            *)
(* (_execModule) and the automock generator (_generateMock).               *)
(*                                                                         *)
(* The runtime is single threaded.  User code (a test, the callback of     *)
(* isolateModules, the body of a module) runs one operation at a time; an  *)
(* operation that starts the body of a module pushes a frame on `stack`    *)
(* and the body then runs its own operations until it returns or raises.   *)
(***************************************************************************)
EXTENDS Integers, Sequences, FiniteSets, TLC

\* ------------------------------------------------------------------ bounds
\* Greatest number of directories in the paths option of require.resolve.
MaxPaths == 2

\* Greatest number of pending activations (module bodies, mock generations,
\* isolateModules callbacks) on the call stack.
MaxDepth == 4

\* Callbacks of isolateModules in progress at the same time: at most
\* MaxNesting.
MaxNesting == 2

\* ------------------------------------------------------------- file system
None == "none"
TestPath == "/t.test.js"
FileA == "/a.js"
FileB == "/b.js"
FileM == "/node_modules/m.js"
MockM == "/__mocks__/m.js"
FileJ == "/j.json"
FileF == "/lib/f.js"
MockF == "/lib/__mocks__/f.js"
MockU == "/__mocks__/u.js"

\* Requests that user code makes.  "v" has no file on disk; "./lib/f" is a
\* relative request; "u" has a manual mock and no module; "f" is found in
\* the directories /lib and /lib/__mocks__ only.
Names == {"a", "b", "m", "fs", "j", "v", "./lib/f", "u", "f"}

\* A request that is no string (null, undefined) and the empty string.
Null == "<null>"
Undefined == "<undefined>"
Empty == ""

\* Resolver.isCoreModule
IsCoreModule(moduleName) == moduleName = "fs"

\* Resolver.getModule: the haste module of that name (none in this project).
GetModule(moduleName) == None

\* Resolver.getMockModule: the manual mock registered for the name.
GetMockModule(from, moduleName) ==
  CASE moduleName = "m" -> MockM
    [] moduleName = "u" -> MockU
    [] OTHER -> None

\* Resolver.resolveStubModuleName: no moduleNameMapper is configured.
ResolveStubModuleName(from, moduleName) == None

\* Resolver.resolveModule: the path, or None where the resolver throws
\* MODULE_NOT_FOUND.  An absolute path resolves to itself; a core module
\* name resolves to the name.
ResolveModule(from, moduleName) ==
  CASE moduleName = "a" -> FileA
    [] moduleName = "b" -> FileB
    [] moduleName = "m" -> FileM
    [] moduleName = "j" -> FileJ
    [] moduleName = "fs" -> "fs"
    [] moduleName = "./lib/f" -> FileF
    [] moduleName \in {FileA, FileB, FileM, MockM, FileJ, FileF, MockF, MockU}
         -> moduleName
    [] OTHER -> None

\* Resolver.getModulePath: the path a virtual mock of the name is filed under.
GetModulePath(from, moduleName) ==
  IF moduleName = "v" THEN "/v" ELSE ResolveModule(from, moduleName)

\* Resolver.getModuleID: an identifier of (virtual mocks, from, request).
\* With no request it identifies the requiring file itself.
GetModuleID(virtualMocks, from, moduleName) ==
  CASE moduleName = None /\ from = FileA -> "a"
    [] moduleName = None /\ from = FileB -> "b"
    [] moduleName = None /\ from = FileM -> "m"
    [] moduleName = None /\ from = FileF -> "./lib/f"
    [] moduleName = None -> from
    [] moduleName = "v" /\ "/v" \in virtualMocks -> "/v"
    [] OTHER -> moduleName

\* A file system with no __mocks__ directory next to any module.
NoAdjacentMock(modulePath) == None

\* fs.existsSync(dirname/__mocks__/basename): the path of the file in the
\* __mocks__ directory next to the module, or None.  Only /lib/f.js has one.
AdjacentMock(modulePath) == IF modulePath = FileF THEN MockF ELSE None

\* path.extname(modulePath) === '.json'
IsJson(modulePath) == modulePath = FileJ

\* config.unmockedModulePathPatterns, as the test of the compiled pattern.
UnmockListTest(modulePath) == FALSE

\* path.includes(NODE_MODULES)
InNodeModules(modulePath) == modulePath = FileM

Files == {FileA, FileB, FileM, MockM, FileJ, FileF, MockF, MockU}

\* path.resolve(from, '..'): the directory of a file.
Dirname(from) ==
  CASE from \in {FileF} -> "/lib"
    [] from \in {MockF} -> "/lib/__mocks__"
    [] from \in {MockM, MockU} -> "/__mocks__"
    [] from \in {FileM} -> "/node_modules"
    [] OTHER -> "/"

\* path.resolve(from, '..', p): p itself when it is absolute, else p below
\* the directory of from.
PathResolve(from, p) ==
  CASE p \in {"/lib", "/nowhere"} -> p
    [] p = "__mocks__" /\ Dirname(from) = "/" -> "/__mocks__"
    [] p = "__mocks__" -> "/lib/__mocks__"
    [] OTHER -> p

\* Resolver.getModulePaths: the node_modules directories from dir upwards.
GetModulePaths(dir) ==
  CASE dir = "/" -> <<"/node_modules">>
    [] dir = "/node_modules" -> <<"/node_modules">>
    [] dir = "/lib" -> <<"/lib/node_modules", "/node_modules">>
    [] dir = "/lib/__mocks__" ->
         <<"/lib/__mocks__/node_modules", "/lib/node_modules",
           "/node_modules">>
    [] OTHER -> <<"/__mocks__/node_modules", "/node_modules">>

\* Resolver.resolveModuleFromDirIfExists(dir, moduleName, {paths: [dir]}):
\* the module of that name found from directory dir, or None (null).
ResolveModuleFromDirIfExists(dir, moduleName) ==
  CASE moduleName = "fs" -> "fs"
    [] moduleName = "f" /\ dir = "/lib" -> FileF
    [] moduleName = "f" /\ dir = "/lib/__mocks__" -> MockF
    [] moduleName = "m" /\ dir = "/__mocks__" -> MockM
    [] moduleName = "u" /\ dir = "/__mocks__" -> MockU
    [] OTHER -> None

\* moduleName[0] === '.'
StartsWithDot(moduleName) == moduleName \in {"./lib/f", ".", ".."}

\* ------------------------------------------------------------------ values
\* An exports value: what it is, the file or id it came from and its
\* identity (0 for values compared by value).
V(kind, file, id) == [kind |-> kind, file |-> file, id |-> id]
NoVal == V("none", None, 0)
Err(name) == V("error", name, 0)
Truthy(v) == v.kind # "falsy"

EmptyMap == [k \in {} |-> NoVal]
Put(m, k, v) == [x \in (DOMAIN m) \cup {k} |-> IF x = k THEN v ELSE m[x]]
Has(m, k) == k \in DOMAIN m

NullMap == 0
\* What the observer notes when _generateMock starts: the module id asked
\* for and the key sets of the real, mock, isolated real and isolated mock
\* registries.
NoGen == [done |-> FALSE, id |-> "none", real |-> {}, mock |-> {},
          isoReal |-> {}, isoMock |-> {}]

\* What require.resolve / require.resolve.paths gave: kind is "path" (list
\* holds the one path), "list", "null" or "throw" (error names the error, list
\* the paths its message enumerates); calls are the look-ups made, in order;
\* given and opts are the paths option of the call.
NoRes == [kind |-> "none", list |-> <<>>, error |-> None, calls |-> <<>>,
          given |-> FALSE, opts |-> <<>>]

NoCall == [op |-> "none", from |-> None, name |-> None, expl |-> "unset",
           env |-> "live", repeat |-> FALSE, reset |-> FALSE,
           isolated |-> FALSE, prevVal |-> NoVal, prevRan |-> FALSE]

VARIABLES
  heap,                   \* the Map objects: map id -> contents
  moduleRegistry,         \* _moduleRegistry (a map id)
  mockRegistry,           \* _mockRegistry (a map id)
  internalModuleRegistry, \* _internalModuleRegistry (a map id)
  isolatedModuleRegistry, \* _isolatedModuleRegistry (a map id or NullMap)
  isolatedMockRegistry,   \* _isolatedMockRegistry (a map id or NullMap)
  explicitShouldMock,     \* _explicitShouldMock: id -> BOOLEAN (partial)
  transitiveShouldMock,   \* _transitiveShouldMock: id -> BOOLEAN (partial)
  shouldMockModuleCache,  \* _shouldMockModuleCache: id -> BOOLEAN (partial)
  shouldUnmockTransitiveDependenciesCache, \* set of <<from, id>> keys
  mockFactories,          \* _mockFactories: id -> kind of factory (partial)
  mockMetaDataCache,      \* _mockMetaDataCache: path -> "empty" | "real"
  virtualMocks,           \* _virtualMocks: set of paths
  shouldAutoMock,         \* _shouldAutoMock
  currentlyExecutingModulePath,    \* "" when idle
  isCurrentlyExecutingManualMock,  \* a path or None (null)
  environment,            \* "live" | "noGlobal" | "noContext"
  exitCode,               \* process.exitCode
  logged,                 \* the torn-down diagnostic was written
  stack,                  \* pending activations, innermost last
  program,                \* the code of the module files (never changes)
  last                    \* what the latest operation of user code did

vars == <<heap, moduleRegistry, mockRegistry, internalModuleRegistry,
          isolatedModuleRegistry, isolatedMockRegistry, explicitShouldMock,
          transitiveShouldMock, shouldMockModuleCache,
          shouldUnmockTransitiveDependenciesCache, mockFactories,
          mockMetaDataCache, virtualMocks, shouldAutoMock,
          currentlyExecutingModulePath, isCurrentlyExecutingManualMock,
          environment, exitCode, logged, stack, program, last>>

\* ------------------------------------------------------------------- state
\* The fields of the runtime as one record, so that the methods below can be
\* written as functions from state to state.  route and path record which
\* methods the operation in progress went through and the path it loaded.
Cur ==
  [heap |-> heap, moduleRegistry |-> moduleRegistry,
   mockRegistry |-> mockRegistry,
   internalModuleRegistry |-> internalModuleRegistry,
   isolatedModuleRegistry |-> isolatedModuleRegistry,
   isolatedMockRegistry |-> isolatedMockRegistry,
   explicitShouldMock |-> explicitShouldMock,
   transitiveShouldMock |-> transitiveShouldMock,
   shouldMockModuleCache |-> shouldMockModuleCache,
   shouldUnmockTransitiveDependenciesCache |->
     shouldUnmockTransitiveDependenciesCache,
   mockFactories |-> mockFactories, mockMetaDataCache |-> mockMetaDataCache,
   virtualMocks |-> virtualMocks, shouldAutoMock |-> shouldAutoMock,
   currentlyExecutingModulePath |-> currentlyExecutingModulePath,
   isCurrentlyExecutingManualMock |-> isCurrentlyExecutingManualMock,
   environment |-> environment, exitCode |-> exitCode, logged |-> logged,
   stack |-> stack, last |-> last, route |-> {}, path |-> None,
   gen |-> NoGen]

\* An activation on the call stack.
\*   "exec": _execModule is running the body of `file`; the record being
\*           loaded has exports `exports` and was registered in map `reg`;
\*           lastPath / origMM are the saved reentrancy values; caller is the
\*           method that called _loadModule.
\*   "gen":  _generateMock is waiting for requireModule; origMock / origModule
\*           are the saved registries.
\*   "iso":  isolateModules is running its callback.
NoFrame ==
  [kind |-> "none", file |-> None, exports |-> NoVal, reg |-> NullMap,
   lastPath |-> "", origMM |-> None, caller |-> None, mockReg |-> NullMap,
   id |-> None, from |-> None, origMock |-> NullMap, origModule |-> NullMap,
   realBefore |-> {}, mockBefore |-> {}, did |-> {}, before |-> NoGen,
   call |-> NoCall]

Top(s) == IF s.stack = <<>> THEN NoFrame ELSE s.stack[Len(s.stack)]
Pop(s) == [s EXCEPT !.stack = SubSeq(@, 1, Len(@) - 1)]
Push(s, f) == [s EXCEPT !.stack = Append(@, f)]

\* The Map objects that the runtime or a pending activation still refers to.
LiveMaps(s) ==
  ({s.moduleRegistry, s.mockRegistry, s.internalModuleRegistry,
    s.isolatedModuleRegistry, s.isolatedMockRegistry}
   \cup UNION {{s.stack[i].reg, s.stack[i].mockReg, s.stack[i].origMock,
                s.stack[i].origModule} : i \in 1..Len(s.stack)})
  \ {NullMap}

\* new Map(): the least map id not in use.
FreshMap(s) ==
  CHOOSE m \in 1..(Cardinality(LiveMaps(s)) + 1) :
    /\ m \notin LiveMaps(s)
    /\ \A n \in 1..(m - 1) : n \in LiveMaps(s)

\* Maps nothing refers to any more are dropped.
Gc(s) == [s EXCEPT !.heap = [m \in LiveMaps(s) |-> s.heap[m]]]

\* The values held: a module registry holds records (exports, loaded), a mock
\* registry holds exports values.
UsedVals(s) ==
  UNION {{IF "loaded" \in DOMAIN s.heap[m][k] THEN s.heap[m][k].exports
          ELSE s.heap[m][k] : k \in DOMAIN s.heap[m]} : m \in DOMAIN s.heap}
  \cup {s.stack[i].exports : i \in 1..Len(s.stack)}
  \cup {s.last.val, s.last.prevVal}

\* The identity of a newly created object: one that no value of its kind the
\* program or its observer still holds has.
FreshId(s, kind, file) ==
  LET used == {v.id : v \in {w \in UsedVals(s) :
                               w.kind = kind /\ w.file = file}}
  IN  CHOOSE i \in 1..(Cardinality(used) + 1) :
        /\ i \notin used
        /\ \A j \in 1..(i - 1) : j \in used

\* The result of a method: the state it leaves and how it ended.
\*   "ret":   returned val
\*   "throw": raised the error val
\*   "call":  started the body of a module, which is now on top of the stack
Ret(s, v) == [s |-> s, kind |-> "ret", val |-> v]
Throw(s, e) == [s |-> s, kind |-> "throw", val |-> Err(e)]
Call(s) == [s |-> s, kind |-> "call", val |-> NoVal]
Via(s, tag) == [s EXCEPT !.route = @ \cup {tag}]

\* --------------------------------------------------------------- _shouldMock
Decide(s, b) == [s |-> s, kind |-> "ret", mock |-> b]

\* NeverAutoMocked without the test of the core-module table.
NeverAutoMockedIgnoringCore(s, moduleName, key) ==
  \/ ~s.shouldAutoMock
  \/ key \in s.shouldUnmockTransitiveDependenciesCache

\* The cases in which a module without an explicit entry is not automocked
\* whatever the caches say: automock is off, the request is a core module, or
\* the transitive-unmock cache has the key.
NeverAutoMocked(s, moduleName, key) ==
  \/ ~s.shouldAutoMock
  \/ IsCoreModule(moduleName)
  \/ key \in s.shouldUnmockTransitiveDependenciesCache

ShouldMock(s, from, moduleName) ==
  LET explicit == s.explicitShouldMock
      moduleID == GetModuleID(s.virtualMocks, from, moduleName)
      key == <<from, moduleID>>
      modulePath == ResolveModule(from, moduleName)
      manualMock == GetMockModule(from, moduleName)
      currentModuleID == GetModuleID(s.virtualMocks, from, None)
  IN  IF Has(explicit, moduleID) THEN Decide(s, explicit[moduleID])
      ELSE IF NeverAutoMocked(s, moduleName, key) THEN Decide(s, FALSE)
      ELSE IF Has(s.shouldMockModuleCache, moduleID)
        THEN Decide(s, s.shouldMockModuleCache[moduleID])
      ELSE IF modulePath = None
        THEN IF manualMock # None
               THEN Decide([s EXCEPT !.shouldMockModuleCache =
                                        Put(@, moduleID, TRUE)], TRUE)
               ELSE [s |-> s, kind |-> "throw", mock |-> FALSE]
      ELSE IF UnmockListTest(modulePath)
        THEN Decide([s EXCEPT !.shouldMockModuleCache =
                                 Put(@, moduleID, FALSE)], FALSE)
      ELSE IF \/ /\ Has(s.transitiveShouldMock, currentModuleID)
                 /\ s.transitiveShouldMock[currentModuleID] = FALSE
              \/ /\ InNodeModules(from)
                 /\ InNodeModules(modulePath)
                 /\ \/ UnmockListTest(from)
                    \/ /\ Has(explicit, currentModuleID)
                       /\ explicit[currentModuleID] = FALSE
        THEN Decide([s EXCEPT
               !.transitiveShouldMock = Put(@, moduleID, FALSE),
               !.shouldUnmockTransitiveDependenciesCache = @ \cup {key}],
               FALSE)
      ELSE Decide([s EXCEPT !.shouldMockModuleCache =
                               Put(@, moduleID, TRUE)], TRUE)

\* The decision of _shouldMock computed from the policy inputs alone, with
\* no look at _shouldMockModuleCache or at
\* _shouldUnmockTransitiveDependenciesCache: "throw" when the request
\* resolves to nothing and has no manual mock, else TRUE or FALSE.
ShouldMockUncached(s, from, moduleName) ==
  LET explicit == s.explicitShouldMock
      moduleID == GetModuleID(s.virtualMocks, from, moduleName)
      modulePath == ResolveModule(from, moduleName)
      manualMock == GetMockModule(from, moduleName)
      currentModuleID == GetModuleID(s.virtualMocks, from, None)
  IN  IF Has(explicit, moduleID) THEN explicit[moduleID]
      ELSE IF ~s.shouldAutoMock \/ IsCoreModule(moduleName) THEN FALSE
      ELSE IF modulePath = None
        THEN IF manualMock # None THEN TRUE ELSE "throw"
      ELSE IF UnmockListTest(modulePath) THEN FALSE
      ELSE IF \/ /\ Has(s.transitiveShouldMock, currentModuleID)
                 /\ s.transitiveShouldMock[currentModuleID] = FALSE
              \/ /\ InNodeModules(from)
                 /\ InNodeModules(modulePath)
                 /\ \/ UnmockListTest(from)
                    \/ /\ Has(explicit, currentModuleID)
                       /\ explicit[currentModuleID] = FALSE
        THEN FALSE
      ELSE TRUE

\* ------------------------------------------------- _loadModule, _execModule
\* environment.moduleMocker.getMetadata(exports) == null
MetadataIsNull(modulePath) == FALSE

\* What the host can make go wrong while a module is loaded: the transformer
\* raises an error, or a configured extra global is not on the global object.
Faults == {"none", "transform", "extraGlobal"}

\* Writes to the record being loaded.  The record is the one registered under
\* its path in map reg unless the registry was cleared or replaced meanwhile.
IsRegistered(s, f) ==
  /\ f.caller = "requireModule"
  /\ f.reg \in DOMAIN s.heap
  /\ Has(s.heap[f.reg], f.file)
  /\ s.heap[f.reg][f.file].exports = f.exports

SetRecord(s, f, rec) ==
  IF IsRegistered(s, f)
    THEN [s EXCEPT !.heap[f.reg] = Put(@, f.file, rec)]
    ELSE s

\* The end of _loadModule (localModule.loaded = true) and the rest of the
\* method that called it: requireModule returns localModule.exports,
\* requireMock stores the exports in the mock registry it chose and returns
\* what that registry now holds.
AfterLoad(s, f) ==
  LET s1 == IF IsRegistered(s, f)
              THEN [s EXCEPT !.heap[f.reg][f.file].loaded = TRUE]
              ELSE s
  IN  IF f.caller = "requireModule"
        THEN Ret(s1, f.exports)
        ELSE LET s2 == [s1 EXCEPT !.heap[f.mockReg] = Put(@, f.id, f.exports)]
             IN  Ret(s2, s2.heap[f.mockReg][f.id])

\* Object.defineProperty(localModule, 'parent', ...): the accessor closes
\* over the registry the record was loaded for and the path of the caller.
DefineParent(s, f) ==
  IF IsRegistered(s, f)
    THEN [s EXCEPT !.heap[f.reg][f.file].parent = f.from]
    ELSE s

\* _execModule up to the call of the module wrapper.
ExecModule(s, f, fault) ==
  IF s.environment = "noGlobal"
    THEN AfterLoad(s, f)
    ELSE
      LET g == [f EXCEPT !.kind = "exec",
                         !.lastPath = s.currentlyExecutingModulePath,
                         !.origMM = s.isCurrentlyExecutingManualMock]
          s1 == [DefineParent(s, f) EXCEPT
                   !.currentlyExecutingModulePath = f.file,
                   !.isCurrentlyExecutingManualMock = f.file]
      IN  IF fault = "transform" THEN Throw(s1, "TransformError")
          ELSE IF s.environment = "noContext"
            THEN AfterLoad([s1 EXCEPT !.logged = TRUE, !.exitCode = 1], f)
          ELSE IF fault = "extraGlobal" THEN Throw(s1, "MissingExtraGlobal")
          ELSE Call(Via(Push(s1, g), "body"))

\* The end of _execModule after the wrapper returned.
ExecModuleEnd(s, f) ==
  [s EXCEPT !.isCurrentlyExecutingManualMock = f.origMM,
            !.currentlyExecutingModulePath = f.lastPath]

LoadModule(s, f, fault) ==
  IF IsJson(f.file)
    THEN IF fault = "transform" THEN Throw(s, "TransformError")
         ELSE IF s.environment = "noGlobal" THEN Throw(s, "TypeError")
         ELSE LET g == [f EXCEPT !.exports =
                          V("json", f.file, FreshId(s, "json", f.file))]
              IN  AfterLoad(SetRecord(s, f, [exports |-> g.exports,
                                             loaded |-> FALSE,
                                             parent |-> None]), g)
    ELSE ExecModule(s, f, fault)

\* ------------------------------------------------------------ requireModule
CoreValue(moduleName) == V("core", moduleName, 0)

\* UseManualMock without the test of the explicit entry.
UseManualMockIgnoringExplicit(s, from, moduleName, internal, actual) ==
  LET moduleResource == GetModule(moduleName)
      manualMock == GetMockModule(from, moduleName)
  IN  /\ ~internal
      /\ ~actual
      /\ moduleResource = None
      /\ manualMock # None
      /\ manualMock # s.isCurrentlyExecutingManualMock

\* UseManualMock without the test of isRequireActual.
UseManualMockIgnoringActual(s, from, moduleName, internal, actual) ==
  LET moduleID == GetModuleID(s.virtualMocks, from, moduleName)
      moduleResource == GetModule(moduleName)
      manualMock == GetMockModule(from, moduleName)
  IN  /\ ~internal
      /\ moduleResource = None
      /\ manualMock # None
      /\ manualMock # s.isCurrentlyExecutingManualMock
      /\ ~(/\ Has(s.explicitShouldMock, moduleID)
           /\ s.explicitShouldMock[moduleID] = FALSE)

\* UseManualMock without the test of isInternalModule.
UseManualMockForInternal(s, from, moduleName, internal, actual) ==
  LET moduleID == GetModuleID(s.virtualMocks, from, moduleName)
      moduleResource == GetModule(moduleName)
      manualMock == GetMockModule(from, moduleName)
  IN  /\ ~actual
      /\ moduleResource = None
      /\ manualMock # None
      /\ manualMock # s.isCurrentlyExecutingManualMock
      /\ ~(/\ Has(s.explicitShouldMock, moduleID)
           /\ s.explicitShouldMock[moduleID] = FALSE)

\* Whether requireModule loads the manual mock of the request in place of
\* the module.
UseManualMock(s, from, moduleName, internal, actual) ==
  LET moduleID == GetModuleID(s.virtualMocks, from, moduleName)
      moduleResource == GetModule(moduleName)
      manualMock == GetMockModule(from, moduleName)
  IN  /\ ~internal
      /\ ~actual
      /\ moduleResource = None
      /\ manualMock # None
      /\ manualMock # s.isCurrentlyExecutingManualMock
      /\ ~(/\ Has(s.explicitShouldMock, moduleID)
           /\ s.explicitShouldMock[moduleID] = FALSE)

\* SelectRegistry without the isolated registry.
SelectRegistryIgnoringIsolation(s, modulePath, internal) ==
  IF ~internal THEN s.moduleRegistry ELSE s.internalModuleRegistry

\* The registry requireModule looks the path up in and registers it in.
SelectRegistry(s, modulePath, internal) ==
  IF ~internal
    THEN IF \/ Has(s.heap[s.moduleRegistry], modulePath)
            \/ s.isolatedModuleRegistry = NullMap
           THEN s.moduleRegistry
           ELSE s.isolatedModuleRegistry
    ELSE s.internalModuleRegistry

RequireModule(s0, call, from, moduleName, internal, actual, fault) ==
  LET s == Via(s0, "requireModule")
      moduleID == GetModuleID(s.virtualMocks, from, moduleName)
      manualMock == GetMockModule(from, moduleName)
      useManualMock == UseManualMock(s, from, moduleName, internal, actual)
      modulePath == IF useManualMock THEN manualMock
                    ELSE ResolveModule(from, moduleName)
      reg == SelectRegistry(s, modulePath, internal)
      localModule == [exports |-> V("exports", modulePath,
                                    FreshId(s, "exports", modulePath)),
                      loaded |-> FALSE, parent |-> None]
      f == [NoFrame EXCEPT !.file = modulePath,
                           !.exports = localModule.exports, !.reg = reg,
                           !.caller = "requireModule", !.id = moduleID,
                           !.from = from, !.call = call]
      s1 == [s EXCEPT !.path = modulePath,
                      !.route = @ \cup (IF useManualMock THEN {"manualMock"}
                                        ELSE {})]
  IN  IF IsCoreModule(moduleName)
        THEN Ret(Via(s, "core"), CoreValue(moduleName))
      ELSE IF modulePath = None THEN Throw(s, "MODULE_NOT_FOUND")
      ELSE IF Has(s.heap[reg], modulePath)
        THEN Ret(Via(s1, "hit"), s.heap[reg][modulePath].exports)
      ELSE LoadModule([s1 EXCEPT !.heap[reg] = Put(@, modulePath, localModule)],
                      f, fault)

\* ------------------------------------------------------------ _generateMock
\* What the caller of _generateMock does with the mock: requireMock stores it
\* in the mock registry it chose, genMockFromModule hands it to user code.
GenDeliver(s, f, v) ==
  IF f.caller = "requireMock"
    THEN LET s1 == [s EXCEPT !.heap[f.mockReg] = Put(@, f.id, v)]
         IN  Ret(s1, s1.heap[f.mockReg][f.id])
    ELSE Ret(s, v)

\* The key sets of the registries when _generateMock starts.
Snapshot(s, from, moduleName) ==
  LET keys(m) == IF m = NullMap THEN {} ELSE DOMAIN s.heap[m]
  IN  [done |-> TRUE, id |-> GetModuleID(s.virtualMocks, from, moduleName),
       real |-> keys(s.moduleRegistry), mock |-> keys(s.mockRegistry),
       isoReal |-> keys(s.isolatedModuleRegistry),
       isoMock |-> keys(s.isolatedMockRegistry)]

\* _generateMock after requireModule returned the exports of the real module.
GenResume(s, moduleExports) ==
  LET f == Top(s)
      s1 == Gc([s EXCEPT !.mockRegistry = f.origMock,
                         !.moduleRegistry = f.origModule,
                         !.gen = f.before])
      v == V("automock", f.file, FreshId(s1, "automock", f.file))
      s2 == Pop([s1 EXCEPT !.mockMetaDataCache = Put(@, f.file, "real")])
  IN  IF MetadataIsNull(f.file) THEN Throw(Pop(s1), "MetadataNull")
      ELSE GenDeliver(s2, f, v)

\* If the method that just returned was called by _generateMock, go on there.
Finish(out) ==
  IF out.kind = "ret" /\ Top(out.s).kind = "gen"
    THEN GenResume(out.s, out.val)
    ELSE out

\* A metadata cache that is never found to hold a path.
NeverInMetaDataCache(s, modulePath) == FALSE

\* modulePath in this._mockMetaDataCache
InMetaDataCache(s, modulePath) == Has(s.mockMetaDataCache, modulePath)

GenerateMock(s0, call, from, moduleName, caller, mockReg, id, fault) ==
  LET s == Via(s0, "_generateMock")
      stub == ResolveStubModuleName(from, moduleName)
      modulePath == IF stub # None THEN stub
                    ELSE ResolveModule(from, moduleName)
      kindOfMock == IF s.mockMetaDataCache[modulePath] = "empty"
                      THEN "automockEmpty" ELSE "automock"
      f == [NoFrame EXCEPT !.kind = "gen", !.file = modulePath,
                           !.caller = caller, !.mockReg = mockReg, !.id = id,
                           !.from = from, !.origMock = s.mockRegistry,
                           !.origModule = s.moduleRegistry, !.call = call,
                           !.before = Snapshot(s, from, moduleName)]
      s1 == Push([s EXCEPT !.mockMetaDataCache = Put(@, modulePath, "empty")],
                 f)
      m1 == FreshMap(s1)
      s2 == [s1 EXCEPT !.mockRegistry = m1,
                       !.heap = [m \in (DOMAIN @) \cup {m1} |->
                                   IF m = m1 THEN EmptyMap ELSE @[m]]]
      m2 == FreshMap(s2)
      s3 == [s2 EXCEPT !.moduleRegistry = m2,
                       !.heap = [m \in (DOMAIN @) \cup {m2} |->
                                   IF m = m2 THEN EmptyMap ELSE @[m]]]
  IN  IF modulePath = None THEN Throw(s, "MODULE_NOT_FOUND")
      ELSE IF InMetaDataCache(s, modulePath)
        THEN GenDeliver([s EXCEPT !.gen = f.before], f,
               V(kindOfMock, modulePath, FreshId(s, kindOfMock, modulePath)))
      ELSE Finish(RequireModule(Via(s3, "generate"), call, from, moduleName,
                                FALSE, FALSE, fault))

\* -------------------------------------------------------------- requireMock
\* The value a registered mock factory returns: a new object, or a falsy
\* value such as undefined, null, 0 or false.
FactoryValue(s, kind, id) ==
  IF kind = "falsy" THEN V("falsy", None, 0)
  ELSE V("factory", id, FreshId(s, "factory", id))

RequireMock(s0, call, from, moduleName, fault) ==
  LET s == Via(s0, "requireMock")
      moduleID == GetModuleID(s.virtualMocks, from, moduleName)
      iso == s.isolatedMockRegistry
      mockReg == IF iso # NullMap THEN iso ELSE s.mockRegistry
      module == FactoryValue(s, s.mockFactories[moduleID], moduleID)
      manualMockOrStub == GetMockModule(from, moduleName)
      resolved == IF manualMockOrStub # None
                    THEN ResolveModule(from, manualMockOrStub)
                    ELSE ResolveModule(from, moduleName)
      isManualMock0 == /\ manualMockOrStub # None
                       /\ ResolveStubModuleName(from, moduleName) = None
      adjacent == IF resolved = None THEN None ELSE AdjacentMock(resolved)
      isManualMock == isManualMock0 \/ adjacent # None
      modulePath == IF ~isManualMock0 /\ adjacent # None THEN adjacent
                    ELSE resolved
      f == [NoFrame EXCEPT !.file = modulePath,
                           !.exports = V("exports", modulePath,
                                         FreshId(s, "exports", modulePath)),
                           !.reg = mockReg, !.caller = "requireMock",
                           !.mockReg = mockReg, !.id = moduleID,
                           !.from = from, !.call = call]
  IN  IF /\ iso # NullMap
         /\ Has(s.heap[iso], moduleID)
         /\ Truthy(s.heap[iso][moduleID])
        THEN Ret(Via(s, "hit"), s.heap[iso][moduleID])
      ELSE IF /\ Has(s.heap[s.mockRegistry], moduleID)
              /\ Truthy(s.heap[s.mockRegistry][moduleID])
        THEN Ret(Via(s, "hit"), s.heap[s.mockRegistry][moduleID])
      ELSE IF Has(s.mockFactories, moduleID)
        THEN Ret([Via(s, "factory") EXCEPT
                    !.heap[mockReg] = Put(@, moduleID, module)], module)
      ELSE IF resolved = None THEN Throw(s, "MODULE_NOT_FOUND")
      ELSE IF isManualMock
        THEN LoadModule([Via(s, "manualMock") EXCEPT !.path = modulePath],
                        f, fault)
      ELSE GenerateMock(s, call, from, moduleName, "requireMock", mockReg,
                        moduleID, fault)

\* ------------------------------------------------------ requireModuleOrMock
RequireModuleOrMock(s, call, from, moduleName, fault) ==
  LET d == ShouldMock(s, from, moduleName)
  IN  IF d.kind = "throw" THEN Throw(d.s, "MODULE_NOT_FOUND")
      ELSE IF d.mock THEN RequireMock(d.s, call, from, moduleName, fault)
      ELSE RequireModule(d.s, call, from, moduleName, FALSE, FALSE, fault)

\* ---------------------------------------------------------------- user code
\* What the body of a module does: the requests it may make, whether its
\* evaluation may raise an error, and whether it may call jest.resetModules.
BodyRequires(file) == program[file].requires
BodyMayThrow(file) == program[file].throws
BodyMayReset(file) == program[file].resets

\* A body that requires nothing and raises nothing, and a project of such.
Leaf == [requires |-> {}, throws |-> FALSE, resets |-> FALSE]
Needs(names) == [requires |-> names, throws |-> FALSE, resets |-> FALSE]
Leaves == [f \in Files |-> Leaf]

\* The file whose code is running: the body of a module, or the test.
CurrentFile == IF Top(Cur).kind = "exec" THEN Top(Cur).file ELSE TestPath
InTest == Top(Cur).kind \in {"none", "iso"}
InBody == Top(Cur).kind = "exec"

Explicit(moduleName) ==
  LET id == GetModuleID(virtualMocks, CurrentFile, moduleName)
  IN  IF ~Has(explicitShouldMock, id) THEN "unset"
      ELSE IF explicitShouldMock[id] THEN "true" ELSE "false"

\* What starts an evaluation: the body of a module, a mock factory, the load
\* of the real module for an automock.
Evaluations == {"body", "factory", "generate"}

\* The operation user code is making, with what held when it was made: the
\* explicit entry of the request, the environment, and whether the operation
\* before it was the same one and returned (then with what, and whether that
\* one evaluated something), or whether only a resetModules separates it from
\* the same require that returned (then with what), or whether it comes right
\* after an isolateModules call whose callback ended with the same require,
\* answered from the isolated registry (then with what).
TheCall(op, moduleName) ==
  LET repeat == /\ last.op = op
                /\ last.from = CurrentFile
                /\ last.name = moduleName
                /\ last.kind = "ret"
      reset == /\ op = "require"
               /\ last.op = "resetModules"
               /\ last.from = CurrentFile
               /\ last.name = moduleName
      isolated == /\ op = "require"
                  /\ last.op = "isolateModules"
                  /\ last.when = "return"
                  /\ last.from = CurrentFile
                  /\ last.name = moduleName
  IN  [op |-> op, from |-> CurrentFile, name |-> moduleName,
       expl |-> Explicit(moduleName), env |-> environment,
       repeat |-> repeat, reset |-> reset, isolated |-> isolated,
       prevVal |-> IF repeat THEN last.val
                   ELSE IF reset \/ isolated THEN last.prevVal ELSE NoVal,
       prevRan |-> repeat /\ last.ran]

\* What the observer keeps of the latest operation of user code:
\*   when   "call" if this is the step that made the operation, "return" if
\*          it ended with the body of the module it had started
\*   kind   "ret", "throw", or "enter" (the body of a module was started)
\*   route  the methods gone through in this step, path the path loaded
\*   ran    the operation evaluated something
\* and of an isolateModules call that returned: the key sets of the real and
\* the mock registry before it, those of the two isolated registries when
\* its callback returned, and the tracked operations the callback made;
\* and of an operation that ended a mock generation: what was noted when the
\* generation started.
NoLast ==
  [op |-> "none", from |-> None, name |-> None, expl |-> "unset",
   env |-> "live", repeat |-> FALSE, reset |-> FALSE, isolated |-> FALSE,
   prevVal |-> NoVal, prevRan |-> FALSE,
   when |-> "call", kind |-> "ret", val |-> NoVal, route |-> {},
   path |-> None, ran |-> FALSE, realBefore |-> {}, mockBefore |-> {},
   realInside |-> {}, mockInside |-> {}, did |-> {}, gen |-> NoGen,
   res |-> NoRes]

Observed(call, when, kind, val, s) ==
  [NoLast EXCEPT !.op = call.op, !.from = call.from, !.name = call.name,
                 !.expl = call.expl, !.env = call.env,
                 !.repeat = call.repeat, !.reset = call.reset,
                 !.isolated = call.isolated,
                 !.prevVal = call.prevVal,
                 !.prevRan = call.prevRan,
                 !.when = when, !.kind = kind, !.val = val,
                 !.route = s.route, !.path = s.path, !.gen = s.gen,
                 !.ran = (when = "return")
                         \/ s.route \cap Evaluations # {}]

Install(s0) ==
  LET s == Gc(s0)
  IN  /\ heap' = s.heap
      /\ moduleRegistry' = s.moduleRegistry
      /\ mockRegistry' = s.mockRegistry
      /\ internalModuleRegistry' = s.internalModuleRegistry
      /\ isolatedModuleRegistry' = s.isolatedModuleRegistry
      /\ isolatedMockRegistry' = s.isolatedMockRegistry
      /\ explicitShouldMock' = s.explicitShouldMock
      /\ transitiveShouldMock' = s.transitiveShouldMock
      /\ shouldMockModuleCache' = s.shouldMockModuleCache
      /\ shouldUnmockTransitiveDependenciesCache' =
           s.shouldUnmockTransitiveDependenciesCache
      /\ mockFactories' = s.mockFactories
      /\ mockMetaDataCache' = s.mockMetaDataCache
      /\ virtualMocks' = s.virtualMocks
      /\ shouldAutoMock' = s.shouldAutoMock
      /\ currentlyExecutingModulePath' = s.currentlyExecutingModulePath
      /\ isCurrentlyExecutingManualMock' = s.isCurrentlyExecutingManualMock
      /\ environment' = s.environment
      /\ exitCode' = s.exitCode
      /\ logged' = s.logged
      /\ stack' = s.stack
      /\ program' = program
      /\ last' = s.last

\* An error nobody catches below the test: every pending activation is
\* abandoned where it stands.
Unwind(s) == [s EXCEPT !.stack = <<>>]

\* The operations whose use by the callback of isolateModules is kept track
\* of.
Tracked == {"resetModules"}

\* Every isolateModules callback in progress is noted to have done the
\* operation.
Noted(s, op) ==
  [s EXCEPT !.stack = [i \in 1..Len(s.stack) |->
                         IF s.stack[i].kind = "iso" /\ op \in Tracked
                           THEN [s.stack[i] EXCEPT !.did = @ \cup {op}]
                           ELSE s.stack[i]]]

\* The outcome of a method reaches the user code that called it.
Complete(out, call, when) ==
  /\ Len(out.s.stack) <= MaxDepth
  /\ LET s == IF out.kind = "throw" THEN Unwind(out.s) ELSE out.s
         kind == IF out.kind = "call" THEN "enter" ELSE out.kind
     IN  Install([Noted(s, call.op) EXCEPT
                    !.last = Observed(call, when, kind, out.val, s)])

MayRequire(moduleName) ==
  InTest \/ (InBody /\ moduleName \in BodyRequires(CurrentFile))

\* require(moduleName) in the running file
Require(moduleName, fault) ==
  /\ MayRequire(moduleName)
  /\ LET call == TheCall("require", moduleName)
     IN  Complete(RequireModuleOrMock(Cur, call, CurrentFile, moduleName,
                                      fault), call, "call")

\* require.requireActual(moduleName) / jest.requireActual(moduleName)
RequireActual(moduleName, fault) ==
  /\ InTest
  /\ LET call == TheCall("requireActual", moduleName)
     IN  Complete(RequireModule(Cur, call, CurrentFile, moduleName, FALSE,
                                TRUE, fault), call, "call")

\* Runtime.requireInternalModule(from, moduleName), made by the framework
\* that runs the test.
RequireInternalModule(moduleName, fault) ==
  /\ InTest
  /\ LET call == TheCall("requireInternalModule", moduleName)
     IN  Complete(RequireModule(Cur, call, CurrentFile, moduleName, TRUE,
                                FALSE, fault), call, "call")

\* require.requireMock(moduleName) / jest.requireMock(moduleName)
RequireMockOp(moduleName, fault) ==
  /\ InTest
  /\ LET call == TheCall("requireMock", moduleName)
     IN  Complete(RequireMock(Cur, call, CurrentFile, moduleName, fault),
                  call, "call")

\* jest.genMockFromModule(moduleName)
GenMockFromModule(moduleName, fault) ==
  /\ InTest
  /\ LET call == TheCall("genMockFromModule", moduleName)
     IN  Complete(GenerateMock(Cur, call, CurrentFile, moduleName,
                               "genMockFromModule", NullMap, None, fault),
                  call, "call")

\* The body of a module runs to its end: _execModule restores the reentrancy
\* state, _loadModule marks the record loaded and the method that asked for
\* the module returns to its caller.
BodyReturn ==
  /\ InBody
  /\ LET f == Top(Cur)
         s == [Pop(ExecModuleEnd(Cur, f)) EXCEPT !.path = f.file]
     IN  Complete(Finish(AfterLoad(s, f)), f.call, "return")

\* User code raises an error: the body of a module, or the callback of
\* isolateModules.
Raise ==
  /\ \/ InBody /\ BodyMayThrow(CurrentFile)
     \/ Top(Cur).kind = "iso"
  /\ LET call == TheCall("raise", None)
     IN  Complete(Throw(Cur, "UserError"), call, "call")

\* The body of a module raises an error and the body that required it
\* catches the error (try { require(...) } catch): the error leaves
\* _execModule, _loadModule and requireModule where they stand, and the
\* requiring body goes on.
RaiseCaught ==
  /\ InBody /\ BodyMayThrow(CurrentFile)
  /\ Len(stack) >= 2
  /\ stack[Len(stack) - 1].kind = "exec"
  /\ LET f == Top(Cur)
         s == Pop(Cur)
     IN  Install([s EXCEPT !.last =
           Observed(f.call, "return", "throw", Err("UserError"), s)])

\* -------------------------------------------------------------- jest object
\* Ends an operation of the jest object that returns the jest object itself.
Done(s, call) ==
  Install([Noted(s, call.op) EXCEPT
             !.last = Observed(call, "call", "ret", NoVal, s)])

\* jest.mock(moduleName) / jest.doMock(moduleName) without a factory
Mock(moduleName) ==
  /\ InTest
  /\ LET id == GetModuleID(virtualMocks, CurrentFile, moduleName)
     IN  Done([Cur EXCEPT !.explicitShouldMock = Put(@, id, TRUE)],
              TheCall("mock", moduleName))

\* Runtime.setMock, reached from jest.mock / jest.doMock with a factory and
\* from jest.setMock(moduleName, value).
SetMock(moduleName, factory, virtual) ==
  /\ InTest
  /\ LET mockPath == GetModulePath(CurrentFile, moduleName)
         vm == IF virtual THEN virtualMocks \cup {mockPath} ELSE virtualMocks
         id == GetModuleID(vm, CurrentFile, moduleName)
     IN  Done([Cur EXCEPT !.virtualMocks = vm,
                          !.explicitShouldMock = Put(@, id, TRUE),
                          !.mockFactories = Put(@, id, factory)],
              TheCall("setMock", moduleName))

\* jest.unmock(moduleName) / jest.dontMock(moduleName)
Unmock(moduleName) ==
  /\ InTest
  /\ LET id == GetModuleID(virtualMocks, CurrentFile, moduleName)
     IN  Done([Cur EXCEPT !.explicitShouldMock = Put(@, id, FALSE)],
              TheCall("unmock", moduleName))

\* jest.deepUnmock(moduleName)
DeepUnmock(moduleName) ==
  /\ InTest
  /\ LET id == GetModuleID(virtualMocks, CurrentFile, moduleName)
     IN  Done([Cur EXCEPT !.explicitShouldMock = Put(@, id, FALSE),
                          !.transitiveShouldMock = Put(@, id, FALSE)],
              TheCall("deepUnmock", moduleName))

\* jest.enableAutomock() / autoMockOn(), jest.disableAutomock() / autoMockOff()
SetAutoMock(b) ==
  /\ InTest
  /\ Done([Cur EXCEPT !.shouldAutoMock = b], TheCall("automock", None))

\* resetModules that leaves the isolated mock registry in place.
ResetModulesKeepingIsolatedMocks(s) ==
  [s EXCEPT !.isolatedModuleRegistry = NullMap,
            !.heap = [m \in DOMAIN @ |->
                        IF m \in {s.mockRegistry, s.moduleRegistry}
                          THEN EmptyMap ELSE @[m]]]

\* resetModules that clears the internal registry as well.
ResetModulesClearingInternal(s) ==
  [s EXCEPT !.isolatedModuleRegistry = NullMap,
            !.isolatedMockRegistry = NullMap,
            !.heap = [m \in DOMAIN @ |->
                        IF m \in {s.mockRegistry, s.moduleRegistry,
                                  s.internalModuleRegistry}
                          THEN EmptyMap ELSE @[m]]]

\* resetModules without the clearing of the mock registry.
ResetModulesKeepingMocks(s) ==
  [s EXCEPT !.isolatedModuleRegistry = NullMap,
            !.isolatedMockRegistry = NullMap,
            !.heap = [m \in DOMAIN @ |->
                        IF m = s.moduleRegistry THEN EmptyMap ELSE @[m]]]

\* Runtime.resetModules
ResetModulesOf(s) ==
  [s EXCEPT !.isolatedModuleRegistry = NullMap,
            !.isolatedMockRegistry = NullMap,
            !.heap = [m \in DOMAIN @ |->
                        IF m \in {s.mockRegistry, s.moduleRegistry}
                          THEN EmptyMap ELSE @[m]]]

\* jest.resetModules().  When it comes right after a require that returned,
\* the observer keeps the request and the value of that require.
ResetModules ==
  /\ InTest
  /\ LET seen == /\ last.op = "require" /\ last.kind = "ret"
                 /\ last.from = CurrentFile
         call == [TheCall("resetModules", None) EXCEPT
                    !.name = IF seen THEN last.name ELSE None,
                    !.prevVal = IF seen THEN last.val ELSE NoVal]
     IN  Done(ResetModulesOf(Cur), call)

\* Runtime.isolateModules up to the call of fn
IsolateModules ==
  /\ InTest
  /\ Cardinality({i \in 1..Len(stack) : stack[i].kind = "iso"}) < MaxNesting
  /\ LET call == TheCall("isolateModules", None)
         s == Cur
         m1 == FreshMap(s)
         s1 == [s EXCEPT !.isolatedModuleRegistry = m1,
                         !.heap = [m \in (DOMAIN @) \cup {m1} |->
                                     IF m = m1 THEN EmptyMap ELSE @[m]]]
         m2 == FreshMap(s1)
         s2 == [s1 EXCEPT !.isolatedMockRegistry = m2,
                          !.heap = [m \in (DOMAIN @) \cup {m2} |->
                                      IF m = m2 THEN EmptyMap ELSE @[m]]]
         f == [NoFrame EXCEPT
                 !.kind = "iso", !.call = call,
                 !.realBefore = DOMAIN s.heap[s.moduleRegistry],
                 !.mockBefore = DOMAIN s.heap[s.mockRegistry]]
     IN  IF \/ s.isolatedModuleRegistry # NullMap
            \/ s.isolatedMockRegistry # NullMap
           THEN Complete(Throw(s, "NestedIsolation"), call, "call")
           ELSE Complete(Call(Push(s2, f)), call, "call")

\* fn returned: the rest of Runtime.isolateModules.  When the latest
\* operation of fn was a require that returned the exports of a record held by
\* the isolated registry, the observer keeps the request and the value.
IsolateModulesEnd ==
  /\ Top(Cur).kind = "iso"
  /\ LET f == Top(Cur)
         s == [Pop(Cur) EXCEPT !.isolatedModuleRegistry = NullMap,
                               !.isolatedMockRegistry = NullMap]
         keys(m) == IF m = NullMap THEN {} ELSE DOMAIN heap[m]
         seen == /\ last.op = "require" /\ last.kind = "ret"
                 /\ last.from = CurrentFile
                 /\ isolatedModuleRegistry # NullMap
                 /\ Has(heap[isolatedModuleRegistry], last.path)
                 /\ heap[isolatedModuleRegistry][last.path].exports = last.val
         call == [f.call EXCEPT !.name = IF seen THEN last.name ELSE None,
                                !.prevVal = IF seen THEN last.val ELSE NoVal]
     IN  Install([s EXCEPT !.last =
           [Observed(call, "return", "ret", NoVal, s) EXCEPT
              !.realBefore = f.realBefore, !.mockBefore = f.mockBefore,
              !.realInside = keys(isolatedModuleRegistry),
              !.mockInside = keys(isolatedMockRegistry),
              !.did = f.did]])

\* jest.resetModules() called by the body of a module through the jest object
\* that _execModule hands to it.
BodyResetModules ==
  /\ InBody
  /\ BodyMayReset(CurrentFile)
  /\ Done(ResetModulesOf(Cur), TheCall("resetModules", None))

\* ------------------------------------------------------------- require.main
\* The parent accessor of the record filed under key in map reg: the key of
\* the record that reg holds under the path of the caller, or None (null,
\* or no accessor).  A module registry holds records; a mock registry holds
\* exports, which have no parent.
ParentKey(s, reg, key) ==
  LET rec == s.heap[reg][key]
  IN  IF "parent" \notin DOMAIN rec THEN None
      ELSE IF rec.parent = None THEN None
      ELSE IF ~Has(s.heap[reg], rec.parent) THEN None
      ELSE rec.parent

\* The loop of the main getter from the record under key: it goes on to the
\* parent while there is one with another id.  The walk is a function of the
\* key alone, so a key met twice is met for ever: the loop does not end
\* (None).
RECURSIVE MainLoop(_, _, _, _)
MainLoop(s, reg, key, seen) ==
  LET p == ParentKey(s, reg, key)
  IN  IF p = None \/ p = key THEN key
      ELSE IF p \in seen THEN None
      ELSE MainLoop(s, reg, p, seen \cup {p})

\* The main getter of the require function of activation f: mainModule starts
\* as the parent of the record being evaluated.  Gives the outcome of the
\* read: it returns null, returns the record under a key, or hangs.
MainOf(s, f) ==
  LET first == IF Has(s.heap[f.reg], f.from) THEN f.from ELSE None
      key == IF first = None \/ "loaded" \notin DOMAIN s.heap[f.reg][first]
               THEN None
               ELSE MainLoop(s, f.reg, first, {first})
  IN  IF first = None \/ "loaded" \notin DOMAIN s.heap[f.reg][first]
        THEN Ret(s, NoVal)
      ELSE IF key = None THEN [s |-> s, kind |-> "hang", val |-> NoVal]
      ELSE Ret([s EXCEPT !.path = key], s.heap[f.reg][key].exports)

\* require.main read by the body of a module.  A read that hangs leaves the
\* runtime as it is, with the body never going on.
RequireMain ==
  /\ InBody
  /\ LET call == TheCall("require.main", None)
         out == MainOf(Cur, Top(Cur))
     IN  Install([out.s EXCEPT
                    !.last = Observed(call, "call", out.kind, out.val, out.s)])

\* ---------------------------------------------------------- require.resolve
\* Runtime._resolveModule: the file itself when there is no request.
ResolveModuleOf(from, to) ==
  IF to \in {Empty, Null, Undefined} THEN from ELSE ResolveModule(from, to)

Failed(error, list, calls) ==
  [NoRes EXCEPT !.kind = "throw", !.error = error, !.list = list,
                !.calls = calls]
Found(path, calls) ==
  [NoRes EXCEPT !.kind = "path", !.list = <<path>>, !.calls = calls]
Listed(paths) == [NoRes EXCEPT !.kind = "list", !.list = paths]

\* _requireResolvePaths without the test of the core-module table.
RequireResolvePathsIgnoringCore(from, moduleName) ==
  IF moduleName \in {Null, Undefined} THEN Failed("MustBeString", <<>>, <<>>)
  ELSE IF moduleName = Empty THEN Failed("MustNotBeEmpty", <<>>, <<>>)
  ELSE IF StartsWithDot(moduleName) THEN Listed(<<Dirname(from)>>)
  ELSE Listed(GetModulePaths(Dirname(from)))

\* Runtime._requireResolvePaths
RequireResolvePathsOf(from, moduleName) ==
  IF moduleName \in {Null, Undefined} THEN Failed("MustBeString", <<>>, <<>>)
  ELSE IF moduleName = Empty THEN Failed("MustNotBeEmpty", <<>>, <<>>)
  ELSE IF StartsWithDot(moduleName) THEN Listed(<<Dirname(from)>>)
  ELSE IF IsCoreModule(moduleName) THEN [NoRes EXCEPT !.kind = "null"]
  ELSE Listed(GetModulePaths(Dirname(from)))

\* The loop of _requireResolve over the paths option, from the i-th path on;
\* calls are the directories tried so far.
RECURSIVE TryPaths(_, _, _, _, _)
TryPaths(from, moduleName, paths, i, calls) ==
  IF i > Len(paths)
    THEN Failed("CannotResolveFromPaths", paths, calls)
    ELSE LET absolutePath == PathResolve(from, paths[i])
             module == ResolveModuleFromDirIfExists(absolutePath, moduleName)
         IN  IF module # None THEN Found(module, Append(calls, absolutePath))
             ELSE TryPaths(from, moduleName, paths, i + 1,
                           Append(calls, absolutePath))

\* ResolveFromPaths that goes on to the normal resolution when no directory
\* has the module.
ResolveFromPathsFallingBack(from, moduleName, paths) ==
  LET r == TryPaths(from, moduleName, paths, 1, <<>>)
      modulePath == ResolveModuleOf(from, moduleName)
  IN  IF r.kind = "throw" /\ modulePath # None
        THEN Found(modulePath, Append(r.calls, "resolveModule"))
        ELSE r

\* _requireResolve with the paths option.
ResolveFromPaths(from, moduleName, paths) ==
  TryPaths(from, moduleName, paths, 1, <<>>)

\* ResolveNormally that asks for the manual mock first.
ResolveNormallyMockFirst(from, moduleName) ==
  LET modulePath == ResolveModuleOf(from, moduleName)
      module == GetMockModule(from, moduleName)
  IN  IF module # None THEN Found(module, <<"getMockModule">>)
      ELSE IF modulePath # None
        THEN Found(modulePath, <<"getMockModule", "resolveModule">>)
      ELSE Failed("MODULE_NOT_FOUND", <<>>,
                  <<"getMockModule", "resolveModule">>)

\* _requireResolve without the paths option: the normal resolution, and the
\* manual mock of the request when that raises an error.
ResolveNormally(from, moduleName) ==
  LET modulePath == ResolveModuleOf(from, moduleName)
      module == GetMockModule(from, moduleName)
  IN  IF modulePath # None THEN Found(modulePath, <<"resolveModule">>)
      ELSE IF module # None
        THEN Found(module, <<"resolveModule", "getMockModule">>)
      ELSE Failed("MODULE_NOT_FOUND", <<>>,
                  <<"resolveModule", "getMockModule">>)

\* Runtime._requireResolve
RequireResolveOf(from, moduleName, given, paths) ==
  IF moduleName \in {Null, Undefined} THEN Failed("MustBeString", <<>>, <<>>)
  ELSE IF given THEN ResolveFromPaths(from, moduleName, paths)
  ELSE ResolveNormally(from, moduleName)

\* The result of a resolve operation reaches the user code that made it; an
\* error abandons the pending activations.
Resolved(call, r, given, paths) ==
  LET s == IF r.kind = "throw" THEN Unwind(Cur) ELSE Cur
      kind == IF r.kind = "throw" THEN "throw" ELSE "ret"
  IN  Install([s EXCEPT !.last =
        [Observed(call, "call", kind, NoVal, s) EXCEPT
           !.res = [r EXCEPT !.given = given, !.opts = paths]]])

\* require.resolve.paths(moduleName) in the running file
RequireResolvePaths(moduleName) ==
  /\ InTest \/ InBody
  /\ Resolved(TheCall("resolve.paths", moduleName),
              RequireResolvePathsOf(CurrentFile, moduleName), FALSE, <<>>)

\* require.resolve(moduleName) and require.resolve(moduleName, {paths})
RequireResolve(moduleName, given, paths) ==
  /\ InTest \/ InBody
  /\ Resolved(TheCall("resolve", moduleName),
              RequireResolveOf(CurrentFile, moduleName, given, paths),
              given, paths)

\* environment.fakeTimers: present until the environment is torn down.
FakeTimers(s) == IF s.environment = "live" THEN "timers" ELSE None

\* _getFakeTimers: logs the diagnostic and sets the exit code when the
\* environment has no fake timers, and returns environment.fakeTimers.
GetFakeTimers(s) ==
  IF FakeTimers(s) = None
    THEN [s |-> [s EXCEPT !.logged = TRUE, !.exitCode = 1],
          timers |-> FakeTimers(s)]
    ELSE [s |-> s, timers |-> FakeTimers(s)]

\* The timer operations of the jest object; each calls a method of what
\* _getFakeTimers returns.
TimerOps == {"useFakeTimers", "useRealTimers", "clearAllTimers",
             "runAllTimers", "runAllTicks", "runAllImmediates",
             "runOnlyPendingTimers", "advanceTimersByTime",
             "advanceTimersToNextTimer", "getTimerCount", "runTimersToTime"}

\* jest.<op>(...): _getFakeTimers().<method>(...).  A method call on null
\* raises a TypeError.
TimerOp(op) ==
  /\ InTest
  /\ LET call == TheCall(op, None)
         g == GetFakeTimers(Cur)
     IN  IF g.timers = None
           THEN Complete(Throw(g.s, "TypeError"), call, "call")
           ELSE Complete(Ret(g.s, NoVal), call, "call")

\* The test environment is torn down: its global object is set to null, or
\* its script runner no longer runs scripts.
TearDown(how) ==
  /\ stack = <<>>
  /\ environment = "live"
  /\ Done([Cur EXCEPT !.environment = how], TheCall("teardown", None))

\* --------------------------------------------------------- the whole system
\* The constructor: empty registries and policy maps, _shouldAutoMock from
\* config.automock, no isolation scope, idle reentrancy state.
Init ==
  /\ heap = [m \in 1..3 |-> EmptyMap]
  /\ moduleRegistry = 1
  /\ mockRegistry = 2
  /\ internalModuleRegistry = 3
  /\ isolatedModuleRegistry = NullMap
  /\ isolatedMockRegistry = NullMap
  /\ explicitShouldMock = EmptyMap
  /\ transitiveShouldMock = EmptyMap
  /\ shouldMockModuleCache = EmptyMap
  /\ shouldUnmockTransitiveDependenciesCache = {}
  /\ mockFactories = EmptyMap
  /\ mockMetaDataCache = EmptyMap
  /\ virtualMocks = {}
  /\ shouldAutoMock \in BOOLEAN
  /\ currentlyExecutingModulePath = ""
  /\ isCurrentlyExecutingManualMock = None
  /\ environment = "live"
  /\ exitCode = 0
  /\ logged = FALSE
  /\ stack = <<>>
  /\ last = NoLast

\* Mocking policy: the test switches the policy inputs of a module that has
\* a manual mock and requires it; the manual mock wraps the real module.
InitPolicy ==
  /\ Init
  /\ program = [Leaves EXCEPT ![MockM] = Needs({"m"})]

NextPolicy ==
  \/ Require("m", "none")
  \/ RequireActual("m", "none")
  \/ RequireMockOp("m", "none")
  \/ BodyReturn
  \/ Mock("m")
  \/ \E k \in {"object", "falsy"} : SetMock("m", k, FALSE)
  \/ Unmock("m")
  \/ DeepUnmock("m")
  \/ \E b \in BOOLEAN : SetAutoMock(b)
  \/ ResetModules

SpecPolicy == InitPolicy /\ [][NextPolicy]_vars

\* ------------------------------------------------------------------- claims
\* The methods of the mock path.
MockPath == {"requireMock", "manualMock", "_generateMock", "factory"}

\* C1: a require of a request whose explicit entry is false delivers the real
\* module: it goes through requireModule with the resolved real path, never
\* through requireMock and never to a manual mock, and what it returns is the
\* exports of the record of the real file.
ExplicitFalseDeliversReal ==
  (last.op = "require" /\ last.expl = "false" /\ last.kind # "throw") =>
     /\ last.when = "call" =>
          /\ "requireModule" \in last.route
          /\ last.route \cap MockPath = {}
          /\ last.path = ResolveModule(last.from, last.name)
     /\ last.kind = "ret" =>
          /\ last.val.kind = "exports"
          /\ last.val.file = ResolveModule(last.from, last.name)

\* The real module was delivered although automock is on, a factory is
\* registered for the id and the mock registry holds a mock of it.
ExplicitFalseWitness ==
  /\ last.op = "require" /\ last.expl = "false" /\ last.kind = "ret"
  /\ last.val.file = FileM
  /\ shouldAutoMock
  /\ Has(mockFactories, "m")
  /\ Has(heap[mockRegistry], "m")

\* C2: when a require that returned is made again at once (nothing between
\* the two), it returns the identical value, and the two calls together
\* evaluate at most once.
RepeatedRequireSame ==
  (last.op = "require" /\ last.repeat) =>
     /\ last.kind # "throw"
     /\ last.kind = "enter" => ~last.prevRan
     /\ last.kind = "ret" => /\ last.val = last.prevVal
                             /\ ~(last.prevRan /\ last.ran)

\* C3: requireActual never goes the mock path and returns the exports of the
\* record of the real file (or the core module).
RequireActualIsReal ==
  (last.op = "requireActual" /\ last.kind # "throw") =>
     /\ last.when = "call" =>
          /\ "requireModule" \in last.route
          /\ last.route \cap MockPath = {}
          /\ ~IsCoreModule(last.name) =>
               last.path = ResolveModule(last.from, last.name)
     /\ last.kind = "ret" =>
          IF IsCoreModule(last.name) THEN last.val = CoreValue(last.name)
          ELSE /\ last.val.kind = "exports"
               /\ last.val.file = ResolveModule(last.from, last.name)

\* requireActual returned the real module of a request that is explicitly
\* mocked, has a factory and has a mock in the mock registry.
RequireActualWitness ==
  /\ last.op = "requireActual" /\ last.kind = "ret"
  /\ last.val.file = FileM
  /\ last.expl = "true"
  /\ Has(mockFactories, "m")
  /\ Has(heap[mockRegistry], "m")

\* -------------------------------------------------------------- core modules
\* The test switches the policy inputs of the core module "fs" and requires
\* it.
InitCore ==
  /\ Init
  /\ program = Leaves

NextCore ==
  \/ Require("fs", "none")
  \/ RequireActual("fs", "none")
  \/ RequireMockOp("fs", "none")
  \/ GenMockFromModule("fs", "none")
  \/ Mock("fs")
  \/ \E k \in {"object", "falsy"} : SetMock("fs", k, FALSE)
  \/ Unmock("fs")
  \/ \E b \in BOOLEAN : SetAutoMock(b)
  \/ ResetModules

SpecCore == InitCore /\ [][NextCore]_vars

InitCycle ==
  /\ Init
  /\ program = [Leaves EXCEPT ![FileA] = Needs({"b", "m"}),
                              ![FileB] = Needs({"a"}),
                              ![MockM] = Needs({"a"})]

NextCycle ==
  \/ \E n \in {"a", "b", "m"} : Require(n, "none")
  \/ BodyReturn
  \/ Mock("m")

SpecCycle == InitCycle /\ [][NextCycle]_vars

\* The activations of module bodies that are evaluating the request of the
\* latest operation.
Evaluating ==
  {i \in 1..Len(stack) :
     /\ stack[i].kind = "exec"
     /\ stack[i].id = GetModuleID(virtualMocks, last.from, last.name)}

\* C5: no file has two evaluations of its body in progress, and a require
\* of a request whose evaluation is in progress returns the exports of the
\* record being evaluated.
CyclesTerminate ==
  /\ \A i, j \in 1..Len(stack) :
        (i # j /\ stack[i].kind = "exec" /\ stack[j].kind = "exec")
          => stack[i].file # stack[j].file
  /\ (last.op = "require" /\ last.when = "call" /\ last.kind = "ret") =>
        \A i \in Evaluating : last.val = stack[i].exports

\* ---------------------------------------------------------------- isolation
\* The test requires /a.js, mocks it (from then on require delivers its
\* automock through requireMock), generates its automock and resets, inside
\* and outside isolateModules; "v" names a module that does not exist.
InitIsolation ==
  /\ Init
  /\ ~shouldAutoMock
  /\ program = Leaves

NextIsolation ==
  \/ IsolateModules
  \/ IsolateModulesEnd
  \/ \E n \in {"a", "v"} : Require(n, "none")
  \/ GenMockFromModule("a", "none")
  \/ BodyReturn
  \/ Mock("a")
  \/ ResetModules
  \/ Raise

SpecIsolation == InitIsolation /\ [][NextIsolation]_vars

IsolationTornDown ==
  (\A i \in 1..Len(stack) : stack[i].kind # "iso") =>
     /\ isolatedModuleRegistry = NullMap
     /\ isolatedMockRegistry = NullMap

\* C8: an isolateModules call made while the callback of another one is
\* running fails: no second callback is ever started.
NestedIsolationForbidden ==
  Cardinality({i \in 1..Len(stack) : stack[i].kind = "iso"}) <= 1

\* ----------------------------------------------------------------- executor
\* /a.js requires /b.js and its body may raise an error; the host may fail
\* to transform a file or lack an extra global; the environment may be torn
\* down between two operations of the test.
InitExecutor ==
  /\ Init
  /\ ~shouldAutoMock
  /\ program = [Leaves EXCEPT ![FileA] = [requires |-> {"b"},
                                          throws |-> TRUE,
                                          resets |-> FALSE]]

NextExecutor ==
  \/ \E n \in {"a", "b", "j"}, fault \in Faults : Require(n, fault)
  \/ BodyReturn
  \/ Raise
  \/ ResetModules
  \/ \E how \in {"noGlobal", "noContext"} : TearDown(how)

SpecExecutor == InitExecutor /\ [][NextExecutor]_vars

\* C9: when no body of a module is being evaluated, however the last
\* evaluation ended, the reentrancy state is idle.
ReentrancyRestored ==
  (\A i \in 1..Len(stack) : stack[i].kind # "exec") =>
     /\ currentlyExecutingModulePath = ""
     /\ isCurrentlyExecutingManualMock = None

\* C10: a require made when the global object of the environment is null,
\* of a module that is not in the registry, returns, with the exit code set
\* to 1 and the diagnostic logged, and does not run the body of the module.
TornDownGuard ==
  (/\ last.op = "require" /\ last.when = "call" /\ last.env = "noGlobal"
   /\ "hit" \notin last.route) =>
     /\ last.kind = "ret"
     /\ exitCode = 1
     /\ logged

\* ------------------------------------------------------------ mock factories
\* C11: with a factory registered for an explicitly mocked request, a require
\* returns a result of the factory, and a require made again at once returns
\* the same cached value without invoking the factory.
FactoryOnceThenCached ==
  (/\ last.op = "require" /\ last.kind = "ret" /\ last.expl = "true"
   /\ Has(mockFactories, GetModuleID(virtualMocks, last.from, last.name))) =>
     /\ last.val.kind \in {"factory", "falsy"}
     /\ last.repeat => /\ "factory" \notin last.route
                       /\ last.val = last.prevVal

\* -------------------------------------------------------------------- reset
\* C12 as stated: the require made right after the resetModules that followed
\* the same require finds nothing cached and returns a value with an identity
\* other than the one returned before the reset, whatever was delivered.
ResetReevaluatesAll ==
  (last.op = "require" /\ last.reset /\ last.kind = "ret") =>
     /\ last.val # last.prevVal
     /\ "hit" \notin last.route

\* C12: when what was delivered before the reset is the exports of a module
\* file (real module, manual mock, data module) or an automock, the require
\* made right after the reset finds nothing cached and returns a value with
\* another identity; a mock factory is invoked again and decides itself
\* what it returns.
ResetReevaluates ==
  (last.op = "require" /\ last.reset /\ last.kind = "ret") =>
     /\ "hit" \notin last.route
     /\ last.prevVal.kind \in {"factory", "falsy"} => "factory" \in last.route
     /\ last.prevVal.kind \notin {"core", "factory", "falsy"} =>
          last.val # last.prevVal

\* A module file was evaluated again after the reset and delivered exports
\* other than those delivered before.
ResetReevaluatesWitness ==
  /\ last.op = "require" /\ last.reset /\ last.kind = "ret"
  /\ last.when = "return"
  /\ last.prevVal.kind = "exports"
  /\ last.val.file = last.prevVal.file
  /\ last.val # last.prevVal

\* ------------------------------------------------------ transitive unmocking
\* Automock is on and /a.js requires /b.js.  The test requires either,
\* deep-unmocks /a.js, mocks or unmocks /b.js, and resets.
InitTransitive ==
  /\ Init
  /\ shouldAutoMock
  /\ program = [Leaves EXCEPT ![FileA] = Needs({"b"})]

NextTransitive ==
  \/ \E n \in {"a", "b"} : Require(n, "none")
  \/ BodyReturn
  \/ DeepUnmock("a")
  \/ Mock("b")
  \/ Unmock("b")
  \/ ResetModules

SpecTransitive == InitTransitive /\ [][NextTransitive]_vars

\* C13: with automock on, a require made by a deep-unmocked module of a peer
\* without explicit entry does not go the mock path and returns the exports
\* of the peer's file.
DeepUnmockUnmocksPeers ==
  (/\ last.op = "require" /\ last.expl = "unset" /\ shouldAutoMock
   /\ LET caller == GetModuleID(virtualMocks, last.from, None)
      IN  /\ Has(transitiveShouldMock, caller)
          /\ transitiveShouldMock[caller] = FALSE) =>
     /\ last.when = "call" => last.route \cap MockPath = {}
     /\ last.kind = "ret" => last.val.kind = "exports"

\* The decision _shouldMock returns in the current state.
Memoized(from, moduleName) ==
  LET d == ShouldMock(Cur, from, moduleName)
  IN  IF d.kind = "throw" THEN "throw" ELSE d.mock

\* C14: for every caller and request, the decision _shouldMock returns with
\* its caches is the decision the policy inputs alone give.
CachedPolicyIsPolicy ==
  \A from \in {TestPath, FileA, FileB} : \A moduleName \in {"a", "b"} :
     Memoized(from, moduleName) = ShouldMockUncached(Cur, from, moduleName)

\* ---------------------------------------------------------- mock generation
\* /a.js requires /b.js and its body may raise an error.  The test mocks
\* /b.js, requires it, and generates the automock of /a.js, inside and
\* outside isolateModules.
InitGenerate ==
  /\ Init
  /\ ~shouldAutoMock
  /\ program = [Leaves EXCEPT ![FileA] = [requires |-> {"b"},
                                          throws |-> TRUE,
                                          resets |-> FALSE]]

NextGenerate ==
  \/ Require("b", "none")
  \/ \E n \in {"a", "v"} : GenMockFromModule(n, "none")
  \/ RequireMockOp("a", "none")
  \/ BodyReturn
  \/ Raise
  \/ Mock("b")
  \/ IsolateModules
  \/ IsolateModulesEnd

SpecGenerate == InitGenerate /\ [][NextGenerate]_vars

\* ------------------------------------------------------ registry invariants
\* The keys of a registry; none when the registry is absent.
Keys(m) == IF m = NullMap THEN {} ELSE DOMAIN heap[m]

\* C15: no path is a key of two of the registries internal, real and
\* isolated real.
ModuleKeyInOneRegistry ==
  /\ Keys(internalModuleRegistry) \cap Keys(moduleRegistry) = {}
  /\ Keys(internalModuleRegistry) \cap Keys(isolatedModuleRegistry) = {}
  /\ Keys(moduleRegistry) \cap Keys(isolatedModuleRegistry) = {}

\* C16: no module id is a key of both the mock registry and the isolated
\* mock registry.
ModuleIDInOneMockRegistry ==
  Keys(mockRegistry) \cap Keys(isolatedMockRegistry) = {}

\* C17: the isolated real registry exists exactly when the isolated mock
\* registry exists.
IsolatedRegistriesTogether ==
  (isolatedModuleRegistry = NullMap) <=> (isolatedMockRegistry = NullMap)

\* Both isolated registries exist while the body of a module runs inside the
\* callback of isolateModules.
IsolatedRegistriesTogetherWitness ==
  /\ isolatedModuleRegistry # NullMap /\ isolatedMockRegistry # NullMap
  /\ Len(stack) = 2
  /\ stack[1].kind = "iso"
  /\ stack[2].kind = "exec"

\* C18: when no mock generation is in progress, however the last one ended,
\* the real and the mock registry are the maps the constructor made (maps 1
\* and 2 of the heap).
GeneratorRestoresRegistries ==
  (\A i \in 1..Len(stack) : stack[i].kind # "gen") =>
     /\ moduleRegistry = 1
     /\ mockRegistry = 2

\* C19: when an operation that generated a mock has returned, the key sets of
\* the real and of the isolated real registry are those from before the
\* generation, and the mock registries have gained at most the module id the
\* mock was generated for.
GenerationLeavesRegistries ==
  (last.gen.done /\ last.kind = "ret") =>
     /\ Keys(moduleRegistry) = last.gen.real
     /\ Keys(isolatedModuleRegistry) = last.gen.isoReal
     /\ last.gen.mock \subseteq Keys(mockRegistry)
     /\ last.gen.isoMock \subseteq Keys(isolatedMockRegistry)
     /\ Keys(mockRegistry) \subseteq last.gen.mock \cup {last.gen.id}
     /\ Keys(isolatedMockRegistry) \subseteq last.gen.isoMock \cup {last.gen.id}

\* ------------------------------------------------------------- loaded flag
\* C20: a require that loaded a module file other than a data file and
\* returned without having run the body of the module (the executor skipped
\* it) leaves a record that is not loaded.
SkippedNeverLoaded ==
  (/\ last.op = "require" /\ last.when = "call" /\ last.kind = "ret"
   /\ "requireModule" \in last.route
   /\ last.route \cap {"hit", "core", "body"} = {}
   /\ ~IsJson(last.path)
   /\ Has(heap[moduleRegistry], last.path)) =>
     ~heap[moduleRegistry][last.path].loaded

\* ------------------------------------------------------------ partial records
\* The module registries in use by requires of user code.
UserRegistries == {moduleRegistry, isolatedModuleRegistry} \ {NullMap}

\* The record of the latest operation's path was delivered by a registry hit
\* while its loaded flag was false.
DeliveredUnloaded ==
  /\ last.op = "require" /\ last.when = "call" /\ last.kind = "ret"
  /\ {"requireModule", "hit"} \subseteq last.route
  /\ \E m \in UserRegistries :
        /\ Has(heap[m], last.path)
        /\ heap[m][last.path].exports = last.val
        /\ ~heap[m][last.path].loaded

\* C21: a require that is answered from the registry with the exports of a
\* record that is not loaded is made while the evaluation of that record is
\* in progress (its body is on the call stack); after the evaluation has ended
\* no require returns the exports of a record that is not loaded.
UnloadedOnlyInCycle ==
  DeliveredUnloaded =>
     \E i \in 1..Len(stack) :
        /\ stack[i].kind = "exec"
        /\ stack[i].file = last.path
        /\ stack[i].exports = last.val

\* The record that activation f is evaluating is in the registry it was
\* loaded for, with the exports the body is filling and loaded = false.
Preregistered(f) ==
  /\ f.reg \in DOMAIN heap
  /\ Has(heap[f.reg], f.file)
  /\ heap[f.reg][f.file].exports = f.exports
  /\ ~heap[f.reg][f.file].loaded

\* C22: from the first to the last instruction of the body of a module that
\* a require is loading, the record of the module is in the registry and its
\* loaded flag is false; when the require has returned with the body run,
\* the record is loaded.
PreregisteredWhileBodyRuns ==
  /\ \A i \in 1..Len(stack) :
        stack[i].kind = "exec" => Preregistered(stack[i])
  /\ (/\ last.op = "require" /\ last.when = "return" /\ last.kind = "ret"
      /\ "requireModule" \in last.route) =>
        \A m \in UserRegistries :
           (Has(heap[m], last.path) /\ heap[m][last.path].exports = last.val)
             => heap[m][last.path].loaded

\* ------------------------------------------------------- isolated evaluation
\* The latest operation is a require that the callback of isolateModules
\* made, that loaded a module through requireModule (no registry held it) and
\* has returned.
FirstRequiredInside ==
  /\ Top(Cur).kind = "iso"
  /\ last.op = "require" /\ last.kind = "ret"
  /\ last.path # None
  /\ "hit" \notin last.route
  /\ last.val.kind \in {"exports", "json"}

InitVirtual ==
  /\ Init
  /\ program = Leaves

NextVirtual ==
  \/ \E k \in {"object", "falsy"}, virtual \in BOOLEAN : SetMock("v", k, virtual)
  \/ Require("v", "none")
  \/ RequireActual("v", "none")
  \/ Unmock("v")
  \/ ResetModules

SpecVirtual == InitVirtual /\ [][NextVirtual]_vars

\* The methods that resolve the request to a path on disk.
Resolving == {"requireModule", "manualMock", "_generateMock"}

\* A require of "v" made while a factory is registered for it as a virtual
\* mock and its explicit entry is true returned a result of that factory and
\* went through no method that resolves a path on disk.
FactoryResultUnresolved ==
  (/\ last.op = "require" /\ last.name = "v" /\ last.expl = "true"
   /\ GetModulePath(last.from, "v") \in virtualMocks
   /\ Has(mockFactories, GetModuleID(virtualMocks, last.from, "v"))) =>
     /\ last.kind = "ret"
     /\ last.route \cap Resolving = {}
     /\ last.val.kind =
          IF mockFactories[GetModuleID(virtualMocks, last.from, "v")] = "falsy"
            THEN "falsy" ELSE "factory"

\* C24: once a factory is registered for "v" as a virtual mock, a require of
\* "v" (its explicit entry still true) returns without going through a method
\* that resolves a path on disk, what it returns is a result of the factory
\* now registered, and no step takes a path out of the virtual mocks.
VirtualMockDelivered ==
  /\ []FactoryResultUnresolved
  /\ [][virtualMocks \subseteq virtualMocks']_vars

\* ------------------------------------------------------ adjacent manual mock
\* /lib/f.js has /lib/__mocks__/f.js next to it, whose body requires the
\* module it stands for.  The test asks for the mock and for the actual
\* module, requires it, switches its explicit entry, registers a factory for
\* it and resets.
InitAdjacent ==
  /\ Init
  /\ program = [Leaves EXCEPT ![MockF] = Needs({"./lib/f"})]

NextAdjacent ==
  \/ RequireMockOp("./lib/f", "none")
  \/ RequireActual("./lib/f", "none")
  \/ Require("./lib/f", "none")
  \/ BodyReturn
  \/ Mock("./lib/f")
  \/ Unmock("./lib/f")
  \/ SetMock("./lib/f", "object", FALSE)
  \/ ResetModules

SpecAdjacent == InitAdjacent /\ [][NextAdjacent]_vars

\* C25: for a module with a file in the __mocks__ directory next to it and no
\* factory registered, requireMock never generates an automock: it evaluates
\* the __mocks__ file, or finds its exports cached, and returns those exports,
\* which the mock registry holds under the module id; requireActual returns
\* the exports of the record of the original file in the real registry; and
\* no value of the mock registry is the exports of a record of the real
\* registry.
AdjacentManualMock ==
  LET id == GetModuleID(virtualMocks, last.from, last.name)
      real == ResolveModule(last.from, last.name)
  IN  /\ (/\ last.op = "requireMock" /\ last.name = "./lib/f"
          /\ ~Has(mockFactories, id) /\ last.kind # "throw") =>
            /\ "_generateMock" \notin last.route
            /\ last.kind = "enter" =>
                 /\ {"manualMock", "body"} \subseteq last.route
                 /\ last.path = MockF
            /\ last.kind = "ret" =>
                 /\ last.val.kind = "exports"
                 /\ last.val.file = MockF
                 /\ Has(heap[mockRegistry], id)
                 /\ heap[mockRegistry][id] = last.val
      /\ (/\ last.op = "requireActual" /\ last.name = "./lib/f"
          /\ last.kind = "ret") =>
            /\ last.val.kind = "exports"
            /\ real = FileF
            /\ last.val.file = FileF
            /\ Has(heap[moduleRegistry], FileF)
            /\ heap[moduleRegistry][FileF].exports = last.val
      /\ \A k \in Keys(mockRegistry), q \in Keys(moduleRegistry) :
            heap[mockRegistry][k] # heap[moduleRegistry][q].exports

\* requireMock evaluated the __mocks__ file and returned its exports while
\* the real registry holds the loaded record of the original file.
AdjacentManualMockWitness ==
  /\ last.op = "requireMock" /\ last.name = "./lib/f"
  /\ last.when = "return" /\ last.kind = "ret"
  /\ last.val.file = MockF
  /\ ~Has(mockFactories, "./lib/f")
  /\ Has(heap[moduleRegistry], FileF)
  /\ heap[moduleRegistry][FileF].loaded
  /\ heap[mockRegistry]["./lib/f"] = last.val

\* ------------------------------------------------------------ timer controls
\* The test uses the timer controls of the jest object and requires /a.js,
\* inside and outside isolateModules, before and after the environment is
\* torn down.
InitTimers ==
  /\ Init
  /\ ~shouldAutoMock
  /\ program = Leaves

NextTimers ==
  \/ \E op \in TimerOps : TimerOp(op)
  \/ \E how \in {"noGlobal", "noContext"} : TearDown(how)
  \/ Require("a", "none")
  \/ BodyReturn
  \/ IsolateModules
  \/ IsolateModulesEnd

SpecTimers == InitTimers /\ [][NextTimers]_vars

\* C26: a timer operation of the jest object made when the environment has
\* no fake timers logs the diagnostic, sets the exit code to 1 and returns
\* without raising an error.
TimerOpsNeverThrow ==
  (last.op \in TimerOps /\ last.env # "live") =>
     /\ logged
     /\ exitCode = 1
     /\ last.kind = "ret"

\* ---------------------------------------------------------- require.resolve
\* The test and the body of /lib/f.js resolve requests, with and without
\* the paths option; the test requires /lib/f.js and mocks modules.
Requests == {Null, Undefined, Empty, "./lib/f", "fs", "a", "m", "u", "v", "f"}
PathArgs == {"/lib", "__mocks__", "/nowhere"}
PathLists == UNION {[1..n -> PathArgs] : n \in 0..MaxPaths}

InitResolve ==
  /\ Init
  /\ ~shouldAutoMock
  /\ program = Leaves

NextResolve ==
  \/ \E n \in Requests : RequireResolvePaths(n)
  \/ \E n \in Requests : RequireResolve(n, FALSE, <<>>)
  \/ \E n \in {Null, "f", "m", "a"}, paths \in PathLists :
        RequireResolve(n, TRUE, paths)
  \/ Require("./lib/f", "none")
  \/ BodyReturn
  \/ Mock("m")

SpecResolve == InitResolve /\ [][NextResolve]_vars

\* The fields of the runtime.
runtime == <<heap, moduleRegistry, mockRegistry, internalModuleRegistry,
             isolatedModuleRegistry, isolatedMockRegistry, explicitShouldMock,
             transitiveShouldMock, shouldMockModuleCache,
             shouldUnmockTransitiveDependenciesCache, mockFactories,
             mockMetaDataCache, virtualMocks, shouldAutoMock,
             currentlyExecutingModulePath, isCurrentlyExecutingManualMock,
             environment, exitCode, logged>>

\* What require.resolve.paths gave for the request of the latest operation is
\* what the four cases say, tried in their order.
ResolvePathsResult ==
  (last.op = "resolve.paths") =>
     LET dir == Dirname(last.from)
     IN  IF last.name \in {Null, Undefined, Empty}
           THEN /\ last.kind = "throw"
                /\ last.res.error \in {"MustBeString", "MustNotBeEmpty"}
         ELSE IF StartsWithDot(last.name)
           THEN last.kind = "ret" /\ last.res.kind = "list"
                /\ last.res.list = <<dir>>
         ELSE IF IsCoreModule(last.name)
           THEN last.kind = "ret" /\ last.res.kind = "null"
         ELSE last.kind = "ret" /\ last.res.kind = "list"
              /\ last.res.list = GetModulePaths(dir)

\* C27: require.resolve.paths raises the bad-argument error for a request
\* that is null, undefined or empty; else it returns the directory of the
\* caller for a request that starts with a dot, null for a core module, and
\* the search paths from the directory of the caller otherwise; and the step
\* changes no field of the runtime.
ResolvePathsAsSpecified ==
  /\ []ResolvePathsResult
  /\ [][last'.op = "resolve.paths" => UNCHANGED runtime]_vars

\* require.resolve.paths returned null for a core module asked for from the
\* body of a module.
ResolvePathsWitness ==
  /\ last.op = "resolve.paths" /\ last.name = "fs"
  /\ last.res.kind = "null"
  /\ last.from = FileF

\* C28: require.resolve with the paths option tries the directories in the
\* order given and stops at the first in which the resolver finds the
\* request, whose result it returns; when none has it (also when the list is
\* empty) it raises the error that enumerates the paths given; it makes no
\* other look-up, neither the normal resolution nor that of a manual mock.
ResolveFromPathsInOrder ==
  (/\ last.op = "resolve" /\ last.res.given
   /\ last.name \notin {Null, Undefined}) =>
     LET opts == last.res.opts
         dir(i) == PathResolve(last.from, opts[i])
         has == {i \in 1..Len(opts) :
                   ResolveModuleFromDirIfExists(dir(i), last.name) # None}
         first == CHOOSE i \in has : \A j \in has : i <= j
     IN  IF has = {}
           THEN /\ last.kind = "throw"
                /\ last.res.error = "CannotResolveFromPaths"
                /\ last.res.list = opts
                /\ last.res.calls = [i \in 1..Len(opts) |-> dir(i)]
           ELSE /\ last.kind = "ret"
                /\ last.res.kind = "path"
                /\ last.res.list =
                     <<ResolveModuleFromDirIfExists(dir(first), last.name)>>
                /\ last.res.calls = [i \in 1..first |-> dir(i)]

\* No directory given has the request and the error was raised, although the
\* normal resolution finds the module and the resolver has a manual mock of
\* it.
ResolveFromPathsWitness ==
  /\ last.op = "resolve" /\ last.res.given
  /\ Len(last.res.opts) = MaxPaths
  /\ last.kind = "throw"
  /\ last.res.list = last.res.opts
  /\ ResolveModule(last.from, last.name) # None
  /\ GetMockModule(last.from, last.name) # None

\* C29: require.resolve without the paths option returns the path of the
\* normal resolution when that succeeds, without asking for a manual mock;
\* when it fails, the path of the manual mock of the request if the resolver
\* has one; and when there is none it raises the error of the resolution.
ResolveFallsBackToManualMock ==
  (/\ last.op = "resolve" /\ ~last.res.given
   /\ last.name \notin {Null, Undefined}) =>
     LET normal == IF last.name = Empty THEN last.from
                   ELSE ResolveModule(last.from, last.name)
         mock == GetMockModule(last.from, last.name)
     IN  IF normal # None
           THEN /\ last.kind = "ret"
                /\ last.res.list = <<normal>>
                /\ last.res.calls = <<"resolveModule">>
         ELSE IF mock # None
           THEN /\ last.kind = "ret"
                /\ last.res.list = <<mock>>
                /\ last.res.calls = <<"resolveModule", "getMockModule">>
         ELSE /\ last.kind = "throw"
              /\ last.res.error = "MODULE_NOT_FOUND"
              /\ last.res.calls = <<"resolveModule", "getMockModule">>

\* The request has no module, and the path of its manual mock was returned.
ResolveFallsBackWitness ==
  /\ last.op = "resolve" /\ ~last.res.given
  /\ last.name = "u"
  /\ last.kind = "ret"
  /\ last.res.list = <<MockU>>

\* -------------------------------------------------------- frame of the reset
\* Automock is on.  Before the test starts the framework may load /a.js as
\* an internal module; the test requires /a.js, which is automocked until the
\* test deep-unmocks it, registers a virtual mock with a factory, isolates
\* and resets.
InitReset ==
  /\ Init
  /\ shouldAutoMock
  /\ program = Leaves

NextReset ==
  \/ last.op = "none" /\ RequireInternalModule("a", "none")
  \/ Require("a", "none")
  \/ BodyReturn
  \/ DeepUnmock("a")
  \/ SetMock("v", "object", TRUE)
  \/ IsolateModules
  \/ IsolateModulesEnd
  \/ ResetModules

SpecReset == InitReset /\ [][NextReset]_vars

\* C30: a resetModules step leaves no isolated registry, leaves the real and
\* the mock registry (the same maps as before) empty, and changes neither the
\* internal registry nor the explicit and transitive entries, the factories,
\* the virtual mocks, the automock switch, the two decision caches, the
\* metadata cache and the reentrancy state; and no step whatever takes a key
\* out of the internal registry.
ResetFrame ==
  /\ [][last'.op = "resetModules" =>
          /\ isolatedModuleRegistry' = NullMap
          /\ isolatedMockRegistry' = NullMap
          /\ moduleRegistry' = moduleRegistry
          /\ mockRegistry' = mockRegistry
          /\ heap'[moduleRegistry'] = EmptyMap
          /\ heap'[mockRegistry'] = EmptyMap
          /\ heap'[internalModuleRegistry'] = heap[internalModuleRegistry]
          /\ UNCHANGED <<internalModuleRegistry, explicitShouldMock,
                         transitiveShouldMock, mockFactories, virtualMocks,
                         shouldAutoMock, shouldMockModuleCache,
                         shouldUnmockTransitiveDependenciesCache,
                         mockMetaDataCache, currentlyExecutingModulePath,
                         isCurrentlyExecutingManualMock>>]_vars
  /\ [][Keys(internalModuleRegistry)
          \subseteq DOMAIN heap'[internalModuleRegistry']]_vars

\* A reset was made right after a require that delivered a module, inside
\* the callback of isolateModules, with an internal module loaded, explicit
\* and transitive entries, a factory, a virtual mock, a cached decision and
\* cached metadata: the internal registry still has its module and the
\* rest is as it was.
ResetFrameWitness ==
  /\ last.op = "resetModules"
  /\ last.prevVal.kind = "exports"
  /\ Has(shouldMockModuleCache, "a")
  /\ Top(Cur).kind = "iso"
  /\ FileA \in Keys(internalModuleRegistry)
  /\ heap[internalModuleRegistry][FileA].loaded
  /\ Has(explicitShouldMock, "a")
  /\ Has(transitiveShouldMock, "a")
  /\ Has(mockFactories, "/v")
  /\ "/v" \in virtualMocks
  /\ Has(mockMetaDataCache, FileA)
  /\ Keys(moduleRegistry) = {} /\ Keys(mockRegistry) = {}
\* ------------------------------------------------- manual mock self-dispatch
\* The latest operation is a require, made by the body of a manual mock file,
\* of the request whose manual mock that file is.
SelfRequire ==
  /\ last.op = "require" /\ last.when = "call"
  /\ last.from # TestPath
  /\ GetMockModule(last.from, last.name) = last.from

\* C31: a require that the body of manual mock file M makes of the request
\* whose manual mock is M starts no second evaluation of M: it starts the
\* body of the real module, or returns the exports of the real module or of
\* the record of M, whatever the explicit entry of the request and the
\* automock switch are.
ManualMockNoSelfDispatch ==
  SelfRequire =>
     /\ last.kind # "throw"
     /\ last.kind = "enter" =>
          last.path = ResolveModule(last.from, last.name)
     /\ last.kind = "ret" =>
          /\ last.val.kind = "exports"
          /\ last.val.file \in {ResolveModule(last.from, last.name),
                                last.from}
\* ------------------------------------------------------------- require.main
\* /a.js and /b.js require each other and /b.js may reset the registries.
\* The test requires either and resets; the bodies read require.main.
InitMain ==
  /\ Init
  /\ ~shouldAutoMock
  /\ program = [Leaves EXCEPT ![FileA] = Needs({"b"}),
                              ![FileB] = [requires |-> {"a"},
                                          throws |-> FALSE,
                                          resets |-> TRUE]]

\* A runtime that hangs takes no further step.
Running == last.kind # "hang"

NextMain ==
  \/ \E n \in {"a", "b"} : Running /\ Require(n, "none")
  \/ Running /\ BodyReturn
  \/ Running /\ RequireMain
  \/ Running /\ BodyResetModules
  \/ Running /\ ResetModules

SpecMain == InitMain /\ [][NextMain]_vars

\* C32: a read of require.main returns, and what it returns is null when the
\* record has no parent, else the exports holder at the end of the parent
\* chain: a record whose parent is absent or is the record itself.
MainTerminates ==
  (last.op = "require.main") =>
     /\ last.kind = "ret"
     /\ last.val # NoVal =>
          LET f == Top(Cur)
              p == ParentKey(Cur, f.reg, last.path)
          IN  /\ Has(heap[f.reg], last.path)
              /\ heap[f.reg][last.path].exports = last.val
              /\ p = None \/ p = last.path
\* --------------------------------------------------- precedence of requireMock
\* The test asks requireMock for m (the resolver has a manual mock of it),
\* ./lib/f (a __mocks__ file sits next to it) and /a.js (neither), registers
\* factories for m, inside and outside isolateModules.
InitMockOrder ==
  /\ Init
  /\ ~shouldAutoMock
  /\ program = Leaves

NextMockOrder ==
  \/ \E n \in {"m", "./lib/f", "a"} : RequireMockOp(n, "none")
  \/ BodyReturn
  \/ \E k \in {"object", "falsy"} : SetMock("m", k, FALSE)
  \/ IsolateModules
  \/ IsolateModulesEnd

SpecMockOrder == InitMockOrder /\ [][NextMockOrder]_vars

\* The mock registry a new mock goes to.
MockTarget ==
  IF isolatedMockRegistry # NullMap THEN isolatedMockRegistry
  ELSE mockRegistry

\* The step is a requireMock call of user code, and in the state before it
\* the sources of a mock are tried in the stated order: an entry of the
\* isolated mock registry, an entry of the mock registry, the factory, the
\* manual mock of the resolver, the adjacent __mocks__ file, an automock.
MockPrecedenceStep ==
  LET id == GetModuleID(virtualMocks, last'.from, last'.name)
      real == ResolveModule(last'.from, last'.name)
      inIso == /\ isolatedMockRegistry # NullMap
               /\ Has(heap[isolatedMockRegistry], id)
      inMock == Has(heap[mockRegistry], id)
      manual == /\ GetMockModule(last'.from, last'.name) # None
                /\ ResolveStubModuleName(last'.from, last'.name) = None
  IN  IF inIso
        THEN /\ last'.kind = "ret" /\ "hit" \in last'.route
             /\ last'.val = heap[isolatedMockRegistry][id]
      ELSE IF inMock
        THEN /\ last'.kind = "ret" /\ "hit" \in last'.route
             /\ last'.val = heap[mockRegistry][id]
      ELSE IF Has(mockFactories, id)
        THEN /\ last'.kind = "ret" /\ "factory" \in last'.route
             /\ last'.val.kind \in {"factory", "falsy"}
      ELSE IF manual
        THEN /\ "manualMock" \in last'.route
             /\ last'.path = GetMockModule(last'.from, last'.name)
      ELSE IF AdjacentMock(real) # None
        THEN /\ "manualMock" \in last'.route
             /\ last'.path = AdjacentMock(real)
      ELSE /\ "_generateMock" \in last'.route
           /\ last'.kind = "ret" => last'.val.kind = "automock"

\* The requireMock call of the step produced a mock (it was not answered from
\* a registry) and the mock is an entry of the target registry and of no
\* other mock registry that did not have the id before.
MockStoredStep ==
  LET id == GetModuleID(virtualMocks, last'.from, last'.name)
      other == IF MockTarget = mockRegistry THEN isolatedMockRegistry
               ELSE mockRegistry
  IN  (last'.kind = "ret" /\ "hit" \notin last'.route) =>
         /\ MockTarget \in DOMAIN heap'
         /\ Has(heap'[MockTarget], id)
         /\ heap'[MockTarget][id] = last'.val
         /\ other # NullMap =>
              (Has(heap'[other], id) <=> Has(heap[other], id))

\* C33: requireMock takes its result from the first source, in the stated
\* order, that has one, and a mock it produces is stored in the isolated mock
\* registry when there is one and in the mock registry otherwise, and in
\* that one only.
MockPrecedence ==
  [][(last'.op = "requireMock" /\ last'.when = "call")
       => (MockPrecedenceStep /\ MockStoredStep)]_vars
\* -------------------------------------------------------- registry selection
\* The framework may load the data module /j.json as an internal module
\* before the test starts.  The test requires /j.json and generates the
\* automock of /a.js, whose body requires /j.json, inside and outside
\* isolateModules, and resets.
InitSelect ==
  /\ Init
  /\ ~shouldAutoMock
  /\ program = [Leaves EXCEPT ![FileA] = Needs({"j"})]

NextSelect ==
  \/ Require("j", "none")
  \/ last.op = "none" /\ RequireInternalModule("j", "none")
  \/ GenMockFromModule("a", "none")
  \/ BodyReturn
  \/ IsolateModules
  \/ IsolateModulesEnd
  \/ ResetModules

SpecSelect == InitSelect /\ [][NextSelect]_vars

\* The innermost callback of isolateModules in progress (NoFrame if none).
Scope ==
  LET isos == {i \in 1..Len(stack) : stack[i].kind = "iso"}
  IN  IF isos = {} THEN NoFrame
      ELSE stack[CHOOSE i \in isos : \A j \in isos : j <= i]

\* A callback of isolateModules is running and has not reset.
InUnresetScope ==
  Scope.kind = "iso" /\ "resetModules" \notin Scope.did

\* The paths the real registry held when that callback was started.
RealBeforeScope == Scope.realBefore

\* A require made inside isolateModules that is not sent to the mock path, of
\* a module that the real registry held when the scope started, is answered
\* from a registry and starts no body.
ServedFromReal ==
  (/\ last.op = "require" /\ last.when = "call"
   /\ "requireModule" \in last.route
   /\ last.route \cap MockPath = {}
   /\ InUnresetScope
   /\ last.path \in RealBeforeScope) =>
     /\ last.kind = "ret"
     /\ "hit" \in last.route
     /\ "body" \notin last.route

\* The maps that are or, once the mock generations in progress have ended,
\* will again be the real registry.
RealMaps ==
  {moduleRegistry} \cup {stack[i].origModule : i \in {j \in 1..Len(stack) :
                                                       stack[j].kind = "gen"}}

\* While there is an isolated registry no step adds a key to the real
\* registry.
NoWriteToRealInScope ==
  isolatedModuleRegistry # NullMap =>
     \A m \in RealMaps \cap DOMAIN heap' :
        DOMAIN heap'[m] \subseteq DOMAIN heap[m]

\* A step that registers a record for an internal-only load adds it to the
\* internal registry, and no other load adds a key there.
InternalLoadsInternal ==
  /\ (last'.op = "requireInternalModule" /\ last'.when = "call"
      /\ last'.kind # "throw" /\ "hit" \notin last'.route) =>
        Has(heap'[internalModuleRegistry], last'.path)
  /\ last'.op # "requireInternalModule" =>
        DOMAIN heap'[internalModuleRegistry]
          = DOMAIN heap[internalModuleRegistry]

\* C34: an internal-only load uses the internal registry; any other load uses
\* the real registry when that holds the path or there is no isolated
\* registry, else the isolated registry.  So inside isolateModules a module
\* the real registry held before the scope is served without being evaluated
\* again, and no key is added to the real registry while there is an isolated
\* registry.
RegistrySelection ==
  /\ []ServedFromReal
  /\ [][NoWriteToRealInScope /\ InternalLoadsInternal]_vars
\* ------------------------------------------- manual mock of a normal require
\* m has a manual mock that requires m itself; /a.js requires m.  The
\* framework may load m as an internal module before the test starts.  The
\* test requires /a.js and m, asks for the actual m and deep-unmocks /a.js,
\* with automock on or off, inside and outside isolateModules.
InitManual ==
  /\ Init
  /\ program = [Leaves EXCEPT ![FileA] = Needs({"m"}),
                              ![MockM] = Needs({"m"})]

NextManual ==
  \/ last.op = "none" /\ RequireInternalModule("m", "none")
  \/ \E n \in {"a", "m"} : Require(n, "none")
  \/ RequireActual("m", "none")
  \/ BodyReturn
  \/ DeepUnmock("a")
  \/ IsolateModules
  \/ IsolateModulesEnd

SpecManual == InitManual /\ [][NextManual]_vars

\* The registries of requires of user code after the step hold, under path,
\* a record with these exports.
FiledAfter(path, exports) ==
  \E m \in {moduleRegistry', isolatedModuleRegistry'} \ {NullMap} :
     /\ Has(heap'[m], path)
     /\ heap'[m][path].exports = exports

\* The step is a require that _shouldMock sent to requireModule with no
\* explicit entry for the request, the request has a manual mock and no haste
\* module, and the manual mock is not the one noted as executing: the manual
\* mock is loaded, or answered from the registry, and its record is filed
\* under its path.
ManualMockSelectedStep ==
  LET manual == GetMockModule(last'.from, last'.name)
  IN  (/\ last'.op = "require" /\ last'.when = "call"
       /\ last'.kind # "throw"
       /\ "requireMock" \notin last'.route
       /\ last'.expl = "unset"
       /\ manual # None
       /\ GetModule(last'.name) = None
       /\ manual # isCurrentlyExecutingManualMock) =>
         /\ "manualMock" \in last'.route
         /\ last'.path = manual
         /\ last'.kind = "ret" =>
              /\ last'.val.kind = "exports" /\ last'.val.file = manual
              /\ FiledAfter(manual, last'.val)
         /\ last'.kind = "enter" =>
              /\ Top(Cur)'.file = manual
              /\ FiledAfter(manual, Top(Cur)'.exports)

\* The step ends the body of a manual mock that requireModule loaded for a
\* require: the require returns the exports of the manual mock file, filed
\* under its path.
ManualMockDeliveredStep ==
  LET f == Top(Cur)
  IN  (/\ last'.op = "require" /\ last'.when = "return"
       /\ f.kind = "exec" /\ f.caller = "requireModule"
       /\ f.file = GetMockModule(last'.from, last'.name)) =>
         /\ last'.kind = "ret"
         /\ last'.val = f.exports
         /\ last'.val.file = f.file
         /\ FiledAfter(f.file, last'.val)

\* The step is an internal-only or a force-real load: it does not select the
\* manual mock.
ManualMockNotSelectedStep ==
  LET manual == GetMockModule(last'.from, last'.name)
  IN  (/\ last'.op \in {"requireInternalModule", "requireActual"}
       /\ manual # None) =>
         /\ "manualMock" \notin last'.route
         /\ last'.path # manual
         /\ last'.val.file # manual

InitReentrancy ==
  /\ Init
  /\ ~shouldAutoMock
  /\ program = [Leaves EXCEPT ![FileA] = Needs({"b"}),
                              ![FileB] = [requires |-> {"m"},
                                          throws |-> TRUE,
                                          resets |-> FALSE]]

NextReentrancy ==
  \/ \E n \in {"a", "b", "m"} : Require(n, "none")
  \/ BodyReturn
  \/ RaiseCaught
  \/ ResetModules

SpecReentrancy == InitReentrancy /\ [][NextReentrancy]_vars

\* While the body of a module runs, with no body of a module it required
\* in progress, both reentrancy fields name its file.
ReentrancyNamesRunningBody ==
  InBody =>
     /\ currentlyExecutingModulePath = Top(Cur).file
     /\ isCurrentlyExecutingManualMock = Top(Cur).file

\* A step that ends the body of a module normally gives both fields the
\* values saved when that body was started; the last such step of a require
\* of the test gives them the values from before the require.
RestoredInOrderStep ==
  (InBody /\ last'.when = "return" /\ last'.kind = "ret"
   /\ stack' = SubSeq(stack, 1, Len(stack) - 1)) =>
     /\ currentlyExecutingModulePath' = Top(Cur).lastPath
     /\ isCurrentlyExecutingManualMock' = Top(Cur).origMM

\* C36: while the body of module M runs and no body of a module it required
\* is in progress, both reentrancy fields are the file name of M; a body
\* that ends normally restores the values saved at its start, innermost
\* first.
ReentrancyStack ==
  /\ []ReentrancyNamesRunningBody
  /\ [][RestoredInOrderStep]_vars
\* ------------------------------------------------------------ failed loads
\* The body of /a.js may raise an error, which the test catches.  The test
\* requires /a.js, generates its automock and resets.
InitFailed ==
  /\ Init
  /\ ~shouldAutoMock
  /\ program = [Leaves EXCEPT ![FileA] = [requires |-> {},
                                          throws |-> TRUE,
                                          resets |-> FALSE]]

NextFailed ==
  \/ \E n \in {"a", "b"} : Require(n, "none")
  \/ GenMockFromModule("a", "none")
  \/ BodyReturn
  \/ Raise
  \/ ResetModules

SpecFailed == InitFailed /\ [][NextFailed]_vars

\* The paths of the records of map m that are not loaded and that no body in
\* progress is evaluating: the records of failed loads.
FailedRecords(m) ==
  {k \in DOMAIN heap[m] :
     /\ ~heap[m][k].loaded
     /\ \A i \in 1..Len(stack) :
          ~(/\ stack[i].kind = "exec" /\ stack[i].file = k
            /\ stack[i].exports = heap[m][k].exports)}

\* A step other than resetModules leaves every record of a failed load where
\* it is and as it is, in a map that still is the isolated registry or the
\* real registry (set aside, maybe, for the time of a mock generation).
FailedStaysStep ==
  \A m \in (RealMaps \cup {isolatedModuleRegistry}) \ {NullMap} :
   \A k \in FailedRecords(m) :
     last'.op # "resetModules" =>
        /\ m \in RealMaps' \cup {isolatedModuleRegistry'}
        /\ Has(heap'[m], k)
        /\ heap'[m][k] = heap[m][k]

\* A require of a module with the record of a failed load returns the
\* exports of that record and runs no body.
PartialDeliveredStep ==
  \A m \in UserRegistries : \A k \in FailedRecords(m) :
     (/\ last'.op = "require" /\ last'.when = "call"
      /\ ResolveModule(last'.from, last'.name) = k) =>
        /\ last'.kind = "ret"
        /\ last'.val = heap[m][k].exports
        /\ "body" \notin last'.route

\* resetModules leaves no record in the registries in use, and a require of
\* a module that has no record there starts the body of the module.
ReleasedByResetStep ==
  /\ last'.op = "resetModules" =>
        \A m \in {moduleRegistry', isolatedModuleRegistry'} \ {NullMap} :
           DOMAIN heap'[m] = {}
  /\ (/\ last'.op = "require" /\ last'.when = "call"
      /\ \A m \in UserRegistries :
            ~Has(heap[m], ResolveModule(last'.from, last'.name))) =>
        /\ last'.kind = "enter"
        /\ "body" \in last'.route

\* C37: the record of a module whose evaluation raised an error stays in its
\* registry, not loaded, until resetModules; until then a require of the
\* module returns the exports of that record, raises nothing and evaluates
\* nothing; after resetModules a require of the module evaluates the body
\* again.
FailedRecordStaysUntilReset ==
  [][FailedStaysStep /\ PartialDeliveredStep /\ ReleasedByResetStep]_vars
\* ---------------------------------------------- generation over a cycle
\* Automock is on; /a.js and /b.js require each other.  The test requires
\* either, generates the automock of either and resets.
InitGenCycle ==
  /\ Init
  /\ shouldAutoMock
  /\ program = [Leaves EXCEPT ![FileA] = Needs({"b"}),
                              ![FileB] = Needs({"a"})]

NextGenCycle ==
  \/ \E n \in {"a", "b"} : Require(n, "none")
  \/ \E n \in {"a", "b"} : GenMockFromModule(n, "none")
  \/ BodyReturn
  \/ ResetModules

SpecGenCycle == InitGenCycle /\ [][NextGenCycle]_vars

\* No file has two bodies or two mock generations in progress, so the call
\* stack never holds more than a generation and a body for each of the two
\* files.
GenerationBounded ==
  /\ \A i, j \in 1..Len(stack) :
        (i # j /\ stack[i].kind = stack[j].kind)
          => stack[i].file # stack[j].file
  /\ Len(stack) <= 2 * Cardinality({FileA, FileB})

\* A step that starts the load of a real module for its automock finds no
\* entry for the path in the metadata cache and leaves the placeholder there;
\* a generation for a path that has an entry starts no load; no step removes
\* an entry.
LoadedOnceStep ==
  /\ (last'.when = "call" /\ "generate" \in last'.route) =>
        /\ ~Has(mockMetaDataCache, last'.path)
        /\ Has(mockMetaDataCache', last'.path)
        /\ mockMetaDataCache'[last'.path] = "empty"
  /\ (/\ last'.when = "call" /\ "_generateMock" \in last'.route
      /\ Has(mockMetaDataCache,
             ResolveModule(last'.from, last'.name))) =>
        /\ last'.kind = "ret"
        /\ last'.route \cap {"generate", "body"} = {}
  /\ DOMAIN mockMetaDataCache \subseteq DOMAIN mockMetaDataCache'

\* C38: with automock on and /a.js and /b.js requiring each other, the
\* synthesis of an automock starts the body of each real module at most once:
\* the placeholder is in the metadata cache before the load starts, a
\* generation for a path in the cache loads nothing, and so the nesting of
\* generations ends.
GenerationOverCycle ==
  /\ []GenerationBounded
  /\ [][LoadedOnceStep]_vars

\* The generation of the automock of /a.js has loaded /a.js, which has
\* required /b.js, whose generation has loaded /b.js, whose require of /a.js
\* was answered with a mock made from the placeholder.
GenerationOverCycleWitness ==
  /\ Len(stack) = 4
  /\ stack[1].kind = "gen" /\ stack[1].file = FileA
  /\ stack[2].kind = "exec" /\ stack[2].file = FileA
  /\ stack[3].kind = "gen" /\ stack[3].file = FileB
  /\ stack[4].kind = "exec" /\ stack[4].file = FileB
  /\ last.op = "require" /\ last.from = FileB /\ last.name = "a"
  /\ last.kind = "ret" /\ last.val.kind = "automockEmpty"
\* -------------------------------------------------- metadata placeholder
\* The paths whose mock generation is in progress.
Generating == {stack[i].file : i \in {j \in 1..Len(stack) :
                                        stack[j].kind = "gen"}}

\* An entry of the metadata cache is the placeholder only while the
\* generation for its path is in progress, and a mock made from the
\* placeholder is delivered only while it is.
PlaceholderWhileGenerating ==
  /\ \A path \in DOMAIN mockMetaDataCache :
        mockMetaDataCache[path] = "empty" => path \in Generating
  /\ (last.kind = "ret" /\ last.val.kind = "automockEmpty") =>
        last.val.file \in Generating

\* C39: once a mock generation for a path has ended, with a mock or with an
\* error, the metadata cache has no entry for the path or the metadata of the
\* real module, so that no later automock of the path is made from the
\* placeholder; resetModules removes no entry.
PlaceholderNeverLeft ==
  /\ []PlaceholderWhileGenerating
  /\ [][last'.op = "resetModules"
          => mockMetaDataCache' = mockMetaDataCache]_vars
====
